---- MODULE Spec2Model ----
(***************************************************************************)
(* Model of the acquisition-and-aggregation pipeline of the admin API:     *)
(* the retry wrappers (common/retry.ts), the Event Probe (steps/probe.ts), *)
(* the Ranking Collector with its acquisition ladder (steps/rankings.ts),  *)
(* the Snapshot Builder (steps/snapshots.ts), the summary counts           *)
(* (steps/notify.ts) and the orchestrator runFull (server.ts).             *)
(*                                                                         *)
(* The persistent store is four collections, each a function from document *)
(* id to document.  Every store read or write of the code is one atomic    *)
(* step of the run that issues it, so that overlapping runs interleave at  *)
(* exactly the points where the code awaits the store.                     *)
(***************************************************************************)
EXTENDS Integers, Sequences, FiniteSets, TLC

VARIABLES
  rt,       \* one execution of withRetry / withFsRetry
  site,     \* the external results site: listing and per-event responses
  events,   \* collection pokemon-events: id -> document
  rows,     \* collection pokemon-event-rankings: id -> document
  snaps,    \* collection daily-rankings-snapshots: id -> document
  execs,    \* collection auto-run-executions: id -> document
  now,      \* the wall clock, in milliseconds
  run,      \* runFull invocations: run -> local variables and position
  cur       \* the last curation request and its response

retryVars == <<rt>>
pipeVars  == <<site, events, rows, snaps, execs, now, run, cur>>
vars      == <<rt, site, events, rows, snaps, execs, now, run, cur>>

(***************************************************************************)
(* Generic helpers                                                         *)
(***************************************************************************)
Min(a, b) == IF a <= b THEN a ELSE b

Pow2(n) == 2 ^ n

Range(s) == {s[k] : k \in 1..Len(s)}

SeqsUpTo(S, n) == UNION {[1..k -> S] : k \in 0..n}

\* String(n).padStart(2,'0')
Pad2(n) == IF n < 10 THEN "0" \o ToString(n) ELSE ToString(n)

\* doc.set(data, {merge:true}): fields of data replace, other fields stay
MergeDoc(old, data) ==
  [k \in (DOMAIN old) \cup (DOMAIN data) |->
      IF k \in DOMAIN data THEN data[k] ELSE old[k]]

\* ref.set(data, {merge:true}) on a collection
SetMerge(col, id, data) ==
  IF id \in DOMAIN col THEN [col EXCEPT ![id] = MergeDoc(col[id], data)]
  ELSE (id :> data) @@ col

\* ref.set(data) on a collection: the whole document is replaced
SetDoc(col, id, data) == (id :> data) @@ col

(***************************************************************************)
(* Retry wrappers (common/retry.ts)                                        *)
(***************************************************************************)
MaxRetryArg == 5         \* largest maxRetry argument explored

BackoffCapMs  == 16000
BackoffBaseMs == 1000

NoErr == [code |-> "", message |-> "(none)"]

\* Errors an operation may throw: code is e.code || e.status || e.statusCode
\* rendered by String(), message is e.message.
ErrSamples ==
  { [code |-> "unavailable",       message |-> "backend down"],
    [code |-> "",                  message |-> "DEADLINE_EXCEEDED: deadline"],
    [code |-> "503",               message |-> "Service Unavailable"],
    [code |-> "14",                message |-> "14 UNAVAILABLE: reset"],
    [code |-> "permission-denied", message |-> "PERMISSION_DENIED"],
    [code |-> "",                  message |-> "NOT_FOUND: no document"] }

\* codeStr.includes(needle) for the lower-cased code strings above
CodeIncludes(codeStr, needle) ==
  <<codeStr, needle>> \in {<<"unavailable", "unavailable">>}

\* msg.toUpperCase().includes(needle) for the messages above
MsgIncludes(message, needle) ==
  <<message, needle>> \in
    { <<"DEADLINE_EXCEEDED: deadline", "DEADLINE_EXCEEDED">>,
      <<"Service Unavailable", "UNAVAILABLE">>,
      <<"14 UNAVAILABLE: reset", "UNAVAILABLE">> }

\* a faulty variant of isRetryableFirestoreError that takes every error for
\* a transient one
RetryableAlways(e) == TRUE

isRetryableFirestoreError(e) ==
  LET codeStr == e.code
      msg     == e.message
  IN  IF \/ CodeIncludes(codeStr, "unavailable")
         \/ CodeIncludes(codeStr, "deadline")
         \/ codeStr = "503"
         \/ codeStr = "504"
         \/ CodeIncludes(codeStr, "etimedout")
      THEN TRUE
      ELSE IF codeStr = "" /\ msg # ""
           THEN \/ MsgIncludes(msg, "UNAVAILABLE")
                \/ MsgIncludes(msg, "DEADLINE_EXCEEDED")
                \/ MsgIncludes(msg, "ETIMEDOUT")
           ELSE FALSE

\* const wait = Math.min(16000, 1000 * Math.pow(2, i))
BackoffUncapped(i) == BackoffBaseMs * Pow2(i)

Backoff(i) == Min(BackoffCapMs, BackoffBaseMs * Pow2(i))

\* for (let i = 0; i <= maxRetry; i++)
LoopContinues(i, maxRetry) == i <= maxRetry

RetryFns == {"withRetry", "withFsRetry"}

RtInit(fn, maxRetry) ==
  [fn |-> fn, maxRetry |-> maxRetry, i |-> 0, pc |-> "try",
   calls |-> 0, waits |-> <<>>, errs |-> <<>>, lastErr |-> NoErr,
   thrown |-> NoErr, logs |-> <<>>]

RtIdle == [RtInit("withFsRetry", 0) EXCEPT !.pc = "idle"]

\* return await fn()  -- the operation succeeds
RetryAttemptOk ==
  /\ rt.pc = "try"
  /\ rt' = [rt EXCEPT !.calls = @ + 1, !.pc = "returned"]
  /\ UNCHANGED pipeVars

\* catch (e) of withRetry: log, wait, next iteration
RetryCatch(e) ==
  /\ rt.pc = "try"
  /\ rt.fn = "withRetry"
  /\ rt' = [rt EXCEPT !.calls = @ + 1,
                      !.errs = Append(@, e),
                      !.lastErr = e,
                      !.waits = Append(@, Backoff(rt.i)),
                      !.logs = Append(@, "retry"),
                      !.pc = "wait"]
  /\ UNCHANGED pipeVars

\* catch (e) of withFsRetry: rethrow at once unless retryable and not last
FsRetryCatch(e) ==
  /\ rt.pc = "try"
  /\ rt.fn = "withFsRetry"
  /\ IF ~isRetryableFirestoreError(e) \/ rt.i = rt.maxRetry
     THEN rt' = [rt EXCEPT !.calls = @ + 1,
                           !.errs = Append(@, e),
                           !.lastErr = e,
                           !.logs = Append(@, "no-retry"),
                           !.thrown = e,
                           !.pc = "thrown"]
     ELSE rt' = [rt EXCEPT !.calls = @ + 1,
                           !.errs = Append(@, e),
                           !.lastErr = e,
                           !.waits = Append(@, Backoff(rt.i)),
                           !.logs = Append(@, "fs-retry"),
                           !.pc = "wait"]
  /\ UNCHANGED pipeVars

\* the backoff sleep ends: i++, then the loop test; after the loop
\* throw lastErr
RetryWake ==
  /\ rt.pc = "wait"
  /\ IF LoopContinues(rt.i + 1, rt.maxRetry)
     THEN rt' = [rt EXCEPT !.i = @ + 1, !.pc = "try"]
     ELSE rt' = [rt EXCEPT !.i = @ + 1, !.thrown = rt.lastErr, !.pc = "thrown"]
  /\ UNCHANGED pipeVars

RetryNext ==
  \/ RetryAttemptOk
  \/ \E e \in ErrSamples : RetryCatch(e)
  \/ \E e \in ErrSamples : FsRetryCatch(e)
  \/ RetryWake

(***************************************************************************)
(* Vocabulary of the pipeline                                              *)
(***************************************************************************)
\* The run's target date (YYYYMMDD) and its M/D label
DateYmd  == "20250307"
DateOnly == "3/7"

\* cityLeagueCategory labels (the source uses the Japanese words) and the
\* category codes of document ids and of the search endpoint
CatOpen   == "Open"
CatSenior == "Senior"
CatJunior == "Junior"
Categories == <<CatOpen, CatSenior, CatJunior>>
CatSet == {CatOpen, CatSenior, CatJunior}
CatCodes == {"open", "senior", "junior"}

\* const toCatCode = (ja) => ja === senior ? 'senior' : ja === junior ? ...
toCatCode(ja) ==
  IF ja = CatSenior THEN "senior" ELSE IF ja = CatJunior THEN "junior" ELSE "open"

NoUrl      == "null"                \* detailUrl: null (no anchor for the row)
Url1       == "/event/detail/101"
Url2       == "/event/detail/102"
UrlNoId    == "/event/detail/abc"   \* listed, but carries no numeric id
NoMatch    == "no-match"

\* detailUrl.match(/\/event\/detail\/(\d+)/)
ExtractEventHoldingId(detailUrl) ==
  IF detailUrl = Url1 THEN "101"
  ELSE IF detailUrl = Url2 THEN "102"
  ELSE NoMatch

GoodUrls == {Url1, Url2}

\* A title is the set of keywords the classifier's regular expressions find
TitleOpen     == {"city", "open"}
TitleSenior   == {"city", "senior"}
TitleJunior   == {"city", "junior"}
TitleCityOnly == {"city"}
TitleOther    == {"gym"}

\* analyzeCityLeague(title)
analyzeCityLeague(title) ==
  IF title = {} THEN [isCityLeague |-> FALSE, category |-> "unknown"]
  ELSE IF "city" \notin title THEN [isCityLeague |-> FALSE, category |-> "unknown"]
  ELSE IF "open" \in title THEN [isCityLeague |-> TRUE, category |-> CatOpen]
  ELSE IF "senior" \in title THEN [isCityLeague |-> TRUE, category |-> CatSenior]
  ELSE IF "junior" \in title THEN [isCityLeague |-> TRUE, category |-> CatJunior]
  ELSE [isCityLeague |-> TRUE, category |-> "unknown"]

\* norm(md) of scrapeEvents: month and day without leading zeros
NormMD(md) == IF md = "03/07" THEN "3/7" ELSE md

(***************************************************************************)
(* Document ids                                                            *)
(***************************************************************************)
MaxEventSeq == 9     \* largest event sequence number the id tables cover

EventKey(dateYmd, catCode, seq) == dateYmd \o "-" \o catCode \o "-" \o Pad2(seq)

\* const docId = `event-${dateYmd}-${catCode}-${seq2}`
EventDocId(dateYmd, catCode, seq) == "event-" \o EventKey(dateYmd, catCode, seq)

EventIdParts == {<<c, n>> : c \in CatCodes, n \in 1..MaxEventSeq}

\* the <<category code, sequence>> an event id was built from
EventIdKey(id) == CHOOSE p \in EventIdParts : EventDocId(DateYmd, p[1], p[2]) = id

\* String(eventDocId).replace(/^event-/, '')
StripEventPrefix(id) == LET p == EventIdKey(id) IN EventKey(DateYmd, p[1], p[2])

\* const rid = `rank-${eventKey}-${rankNum}-${seqStr}`
RowDocId(eventKey, rankNum, seq) ==
  "rank-" \o eventKey \o "-" \o ToString(rankNum) \o "-" \o Pad2(seq)

\* `${ymd}-${cat.key}`
SnapDocId(ymd, catCode) == ymd \o "-" \o catCode

\* r.groupId = `${ymd}_${ev}_${rk}_${ord}`
GroupId(ymd, ev, rk, n) == ymd \o "_" \o ev \o "_" \o ToString(rk) \o "_" \o Pad2(n)

\* Order of document ids, which is the order in which a query returns
\* documents: category code, then the two-digit sequence; for rows then the
\* one-digit rank and the two-digit sequence.
CatCodeOrd(c) == IF c = "junior" THEN 1 ELSE IF c = "open" THEN 2 ELSE 3

EventIdLess(a, b) ==
  LET ka == EventIdKey(a)
      kb == EventIdKey(b)
  IN  \/ CatCodeOrd(ka[1]) < CatCodeOrd(kb[1])
      \/ ka[1] = kb[1] /\ ka[2] < kb[2]

RowLess(d1, d2) ==
  \/ EventIdLess(d1.originalEventId, d2.originalEventId)
  \/ /\ d1.originalEventId = d2.originalEventId
     /\ \/ d1.rank < d2.rank
        \/ d1.rank = d2.rank /\ d1.positionIndex < d2.positionIndex

\* docs of a query snapshot: the event ids of a set, ascending
RECURSIVE SortEventIds(_)
SortEventIds(S) ==
  IF S = {} THEN <<>>
  ELSE LET m == CHOOSE x \in S : \A y \in S \ {x} : EventIdLess(x, y)
       IN  <<m>> \o SortEventIds(S \ {m})

\* docs of a query snapshot: the row ids of a set of collection col, ascending
RECURSIVE SortRowIds(_, _)
SortRowIds(col, S) ==
  IF S = {} THEN <<>>
  ELSE LET m == CHOOSE x \in S : \A y \in S \ {x} : RowLess(col[x], col[y])
       IN  <<m>> \o SortRowIds(col, S \ {m})

(***************************************************************************)
(* The external site                                                       *)
(*                                                                         *)
(* site.listing : the rows of the result listing, in page order            *)
(* site.api[u][cat] : the search endpoint's two pages for event u and      *)
(*    category cat, as answered to a direct request (a) and to a request   *)
(*    made inside a browser session (b)                                    *)
(* site.html[u] : the deck links of the rendered result pages of event u   *)
(***************************************************************************)
PerPage == 8

NoPlayer == "none"
NoDeck   == "none"
Null     == "null"

AllowedRanks == {1, 2, 3, 5, 9}

\* A result row of the search endpoint
ApiRow(rank, player, deck) == [rank |-> rank, player_id |-> player, deck_id |-> deck]

\* Deck urls, by form; extractDeckIdFromUrl reads the id of the first three
DeckUrl(form, id) == [form |-> form, id |-> id]

\* a url that is null
NullUrl == DeckUrl("null", NoDeck)

\* extractDeckIdFromUrl(url)
extractDeckIdFromUrl(url) ==
  IF url = NullUrl THEN Null
  ELSE IF url.form \in {"confirm", "thumbs", "players"} /\ url.id # NoDeck THEN url.id
  ELSE Null

\* canonicalizeDeckUrl(url)
canonicalizeDeckUrl(url) ==
  LET deckId == extractDeckIdFromUrl(url)
  IN  IF deckId # Null THEN DeckUrl("confirm", deckId) ELSE NullUrl

\* A page of the endpoint: kind is "ok" (status 200, JSON, a results array),
\* "nonok" (status not 2xx), "nonjson" (another content type, body not JSON)
\* or "badjson" (JSON content type, body that does not parse)
PageKinds == {"ok", "nonok", "nonjson", "badjson"}

Page(kind, results) == [kind |-> kind, results |-> results]

EmptyPage == Page("ok", <<>>)

\* .filter(r => allowed.has(Number(r.rank))).slice(0, 8)
RECURSIVE FilterAllowed(_)
FilterAllowed(rs) ==
  IF rs = <<>> THEN <<>>
  ELSE IF Head(rs).rank \in AllowedRanks
       THEN <<Head(rs)>> \o FilterAllowed(Tail(rs))
       ELSE FilterAllowed(Tail(rs))

Slice(s, n) == SubSeq(s, 1, Min(n, Len(s)))

PageRows(page) == Slice(FilterAllowed(page.results), PerPage)

\* all.map(r => ({rank, name, point, player_id, area, deck_id, deckViewUrl}))
Normalize(rs) ==
  [k \in 1..Len(rs) |->
     [rank |-> rs[k].rank, player_id |-> rs[k].player_id,
      deck_id |-> rs[k].deck_id,
      deckViewUrl |-> IF rs[k].deck_id # NoDeck
                      THEN DeckUrl("players", rs[k].deck_id) ELSE NullUrl]]

Fetched(organizer, results) == [threw |-> FALSE, organizer |-> organizer, results |-> results]
Threw == [threw |-> TRUE, organizer |-> Null, results |-> <<>>]

ShopName(detailUrl) == IF detailUrl = Url1 THEN "Shop One" ELSE "Shop Two"

\* fetchEventRankingsViaApi(detailUrl, categoryJa): tier a
fetchEventRankingsViaApi(detailUrl, categoryJa) ==
  IF ExtractEventHoldingId(detailUrl) = NoMatch THEN Threw
  ELSE
    LET resp == site.api[detailUrl][categoryJa].a
        first == resp[1]
        second == resp[2]
    IN  IF first.kind \in {"nonok", "nonjson"} THEN Fetched(Null, <<>>)
        ELSE IF first.kind = "badjson" THEN Threw
        ELSE LET page0 == PageRows(first)
                 page1 == IF categoryJa = CatOpen /\ second.kind = "ok"
                          THEN PageRows(second) ELSE <<>>
             IN  Fetched(ShopName(detailUrl), Normalize(page0 \o page1))

\* fetchEventRankingsViaBrowser(detailUrl, categoryJa): tier b
fetchEventRankingsViaBrowser(detailUrl, categoryJa) ==
  IF ExtractEventHoldingId(detailUrl) = NoMatch THEN Threw
  ELSE
    LET resp == site.api[detailUrl][categoryJa].b
        first == resp[1]
        second == resp[2]
        firstNull == first.kind \in {"nonok", "nonjson"}
        p0 == IF firstNull THEN <<>> ELSE PageRows(first)
        p1 == IF categoryJa = CatOpen /\ second.kind = "ok"
              THEN PageRows(second) ELSE <<>>
    IN  IF first.kind = "badjson" THEN Threw
        ELSE IF categoryJa = CatOpen /\ second.kind = "badjson" THEN Threw
        ELSE Fetched(IF firstNull THEN Null ELSE ShopName(detailUrl),
                     Normalize(p0 \o p1))

\* a faulty variant of assignRanksPage0 that gives the fourth link rank 4
assignRanksTop4 == <<1, 2, 3, 4, 5, 5, 5, 5>>

\* const assignRanksPage0 = [1,2,3,3,5,5,5,5]; assignRanksPage1 = [9,...]
assignRanksPage0 == <<1, 2, 3, 3, 5, 5, 5, 5>>
assignRanksPage1 == <<9, 9, 9, 9, 9, 9, 9, 9>>

\* The inner loop of fetchEventRankingsViaHtml over one page's links:
\* returns <<uniq, thisPage>>
RECURSIVE HtmlPage(_, _, _, _)
HtmlPage(items, rankPlan, uniq, thisPage) ==
  IF items = <<>> THEN <<uniq, thisPage>>
  ELSE LET href == Head(items)
           deck_id == extractDeckIdFromUrl(href)
       IN  IF deck_id = Null THEN HtmlPage(Tail(items), rankPlan, uniq, thisPage)
           ELSE IF href \in uniq THEN HtmlPage(Tail(items), rankPlan, uniq, thisPage)
           ELSE IF Len(thisPage) >= Len(rankPlan) THEN <<uniq \cup {href}, thisPage>>
           ELSE LET row == [rank |-> rankPlan[Len(thisPage) + 1],
                            player_id |-> deck_id, deck_id |-> deck_id,
                            deckViewUrl |-> href]
                    next == Append(thisPage, row)
                IN  IF Len(next) >= PerPage THEN <<uniq \cup {href}, next>>
                    ELSE HtmlPage(Tail(items), rankPlan, uniq \cup {href}, next)

\* fetchEventRankingsViaHtml(detailUrl, categoryJa): tier c
fetchEventRankingsViaHtml(detailUrl, categoryJa) ==
  IF ExtractEventHoldingId(detailUrl) = NoMatch THEN Threw
  ELSE
    LET links == site.html[detailUrl]
        r0 == HtmlPage(links[1], assignRanksPage0, {}, <<>>)
        r1 == HtmlPage(links[2], assignRanksPage1, r0[1], <<>>)
    IN  Fetched(Null, IF categoryJa = CatOpen THEN r0[2] \o r1[2] ELSE r0[2])

(***************************************************************************)
(* Ranking Collector: the persistence loop of saveRankingsForEventLocal    *)
(***************************************************************************)
\* const seq = rankSeq[rankNum] ?? 0 -- a faulty variant that numbers rows by their
\* index in the acquired list
SeqByIndex(rankSeq, rankNum, i) == i - 1

\* const seq = rankSeq[rankNum] ?? 0 -- a faulty variant that goes on counting from
\* the rows of that rank already in the store
SeqFromStore(rankSeq, rankNum, i) ==
  Cardinality({id \in DOMAIN rows : rows[id].rank = rankNum})
    + (IF rankNum \in DOMAIN rankSeq THEN rankSeq[rankNum] ELSE 0)

\* const seq = rankSeq[rankNum] ?? 0
SeqOf(rankSeq, rankNum, i) == IF rankNum \in DOMAIN rankSeq THEN rankSeq[rankNum] ELSE 0

\* The document written for one acquired row
RowDoc(eventDocId, organizer, categoryJa, r, seq) ==
  LET deckUrl == IF r.deckViewUrl # NullUrl THEN canonicalizeDeckUrl(r.deckViewUrl)
                 ELSE NullUrl
  IN  [originalEventId    |-> eventDocId,
       organizer          |-> organizer,
       cityLeagueCategory |-> categoryJa,
       rank               |-> r.rank,
       positionIndex      |-> seq,
       deckUrl            |-> deckUrl,
       deckId             |-> IF deckUrl # NullUrl THEN extractDeckIdFromUrl(deckUrl)
                              ELSE Null,
       imageStored        |-> FALSE]

\* for (let i=0;i<results.length;i++) {...}: the batch as a sequence of
\* <<document id, document>>, from index i on, given the counters rankSeq
RECURSIVE RowBatch(_, _, _, _, _, _)
RowBatch(eventDocId, organizer, categoryJa, results, i, rankSeq) ==
  IF i > Len(results) THEN <<>>
  ELSE LET r == results[i]
       IN  IF r.player_id = NoPlayer
           THEN RowBatch(eventDocId, organizer, categoryJa, results, i + 1, rankSeq)
           ELSE IF r.rank < 0
           THEN RowBatch(eventDocId, organizer, categoryJa, results, i + 1, rankSeq)
           ELSE LET eventKey == StripEventPrefix(eventDocId)
                    seq == SeqOf(rankSeq, r.rank, i)
                    rid == RowDocId(eventKey, r.rank, seq)
                IN  <<<<rid, RowDoc(eventDocId, organizer, categoryJa, r, seq)>>>>
                    \o RowBatch(eventDocId, organizer, categoryJa, results, i + 1,
                                (r.rank :> (seq + 1)) @@ rankSeq)

\* batch.commit() of set(ref, doc, {merge:true}) writes, in order
RECURSIVE CommitMerge(_, _)
CommitMerge(col, batch) ==
  IF batch = <<>> THEN col
  ELSE CommitMerge(SetMerge(col, Head(batch)[1], Head(batch)[2]), Tail(batch))

\* batch.commit() of set(ref, doc) writes, in order
RECURSIVE CommitSet(_, _)
CommitSet(col, batch) ==
  IF batch = <<>> THEN col
  ELSE CommitSet(SetDoc(col, Head(batch)[1], Head(batch)[2]), Tail(batch))

\* a faulty variant of DedupByPlayer that keeps every row of a player
RECURSIVE KeepAllPlayers(_, _)
KeepAllPlayers(merged, seen) ==
  IF merged = <<>> THEN <<>>
  ELSE IF Head(merged).player_id = NoPlayer THEN KeepAllPlayers(Tail(merged), seen)
       ELSE <<Head(merged)>> \o KeepAllPlayers(Tail(merged), seen)

\* The merge of the force mode: rows with a player identifier, the first row
\* of each identifier only
RECURSIVE DedupByPlayer(_, _)
DedupByPlayer(merged, seen) ==
  IF merged = <<>> THEN <<>>
  ELSE LET r == Head(merged)
       IN  IF r.player_id = NoPlayer \/ r.player_id \in seen
           THEN DedupByPlayer(Tail(merged), seen)
           ELSE <<r>> \o DedupByPlayer(Tail(merged), seen \cup {r.player_id})

\* ['open','senior','junior'].filter(c => c !== leagueCategoryJa)
AltCats(categoryJa) == SelectSeq(Categories, LAMBDA c : c # categoryJa)

\* The loop over the alternative categories: tier a, then tier b if a is
\* empty; [threw, merged]
RECURSIVE AltLadder(_, _)
AltLadder(detailUrl, alts) ==
  IF alts = <<>> THEN [threw |-> FALSE, merged |-> <<>>, calls |-> <<>>]
  ELSE LET viaApi == fetchEventRankingsViaApi(detailUrl, Head(alts))
           viaBr  == fetchEventRankingsViaBrowser(detailUrl, Head(alts))
           toBr   == ~viaApi.threw /\ viaApi.results = <<>>
           threw  == viaApi.threw \/ (toBr /\ viaBr.threw)
           arr    == IF toBr THEN viaBr.results ELSE viaApi.results
           calls  == IF toBr THEN <<<<"a", Head(alts)>>, <<"b", Head(alts)>>>>
                     ELSE <<<<"a", Head(alts)>>>>
           rest   == AltLadder(detailUrl, Tail(alts))
       IN  IF threw THEN [threw |-> TRUE, merged |-> <<>>, calls |-> calls]
           ELSE [threw |-> rest.threw, merged |-> arr \o rest.merged,
                 calls |-> calls \o rest.calls]

(***************************************************************************)
(* Orchestrated runs (server.ts, runFull) and the Event Probe              *)
(***************************************************************************)
RunA == "A"
RunB == "B"
Runs == {RunA, RunB}

MaxClock == 1        \* the clock's last millisecond

\* no response yet
NoResponse == [status |-> 0]

\* no curation request yet
CurIdle == [id |-> "", items |-> <<>>, response |-> NoResponse]

\* res.status(202).json({ ok:true, accepted:true, mode:'fastAck' })
Accepted == [status |-> 202, ok |-> TRUE, accepted |-> TRUE, mode |-> "fastAck"]

RunIdle ==
  [pc |-> "idle", id |-> "", force |-> FALSE, logs |-> <<>>,
   outcome |-> "none", error |-> "",
   all |-> <<>>, classified |-> <<>>, nextSeq |-> <<>>, k |-> 0, j |-> 0,
   batch |-> <<>>,
   targets |-> <<>>, organizer |-> Null, results |-> <<>>, calls |-> <<>>,
   eventIds |-> <<>>, rankings |-> <<>>, counts |-> <<>>,
   \* history of the run, read by no step of the code
   probed |-> FALSE, second |-> FALSE, probeBase |-> {}, acquired |-> <<>>,
   failedAt |-> "none", transient |-> 0, built |-> <<>>, response |-> NoResponse]

\* const idJst = `${YYYY}${MM}${DD}-${HH}${mm}${ss}-${SSS}` of the start instant
ExecId(ms) == "20250308-090000-" \o (IF ms < 10 THEN "00" ELSE "0") \o ToString(ms)

\* Messages of the errors a run can catch
ErrStore  == "store: UNAVAILABLE"
ErrNet    == "fetch failed"
ErrScrape == "page.goto: Timeout 60000ms exceeded"
ErrNoId   == "cannot extract event_holding_id"
ErrJson   == "Unexpected token in JSON"

\* throw inside the try block of runFull: control passes to the catch block
Thrown(r, msg) ==
  [run EXCEPT ![r].pc = "failed", ![r].error = msg,
                     ![r].failedAt = run[r].pc,
                     ![r].k = 0, ![r].j = 0, ![r].batch = <<>>, ![r].nextSeq = <<>>,
                     ![r].classified = <<>>, ![r].targets = <<>>,
                     ![r].results = <<>>, ![r].organizer = Null,
                     ![r].eventIds = <<>>, ![r].rankings = <<>>]

Throw(r, msg) == run' = Thrown(r, msg)

\* GET /pokemon-events/auto-run: runFull(req.query) is started and 202 is
\* answered; the run's id is derived from the clock.  The first run starts at
\* the instant the clock shows, the second at that instant or a later one.
Trigger(r, force) ==
  /\ run[r].pc = "idle"
  /\ r = RunB => run[RunA].pc # "idle"
  /\ \E t \in (IF r = RunA THEN {now} ELSE {now, now + 1}) :
       /\ t <= MaxClock
       /\ now' = t
       /\ run' = [run EXCEPT ![r].pc = "start", ![r].id = ExecId(t),
                             ![r].force = force, ![r].response = Accepted]
  /\ UNCHANGED <<rt, cur, site, events, rows, snaps, execs>>

\* await writeExec({status:'running', ...})
WriteExecStart(r) ==
  /\ run[r].pc = "start"
  /\ execs' = SetMerge(execs, run[r].id, [status |-> "running", updatedAt |-> now])
  /\ run' = [run EXCEPT ![r].pc = "determine"]
  /\ UNCHANGED <<rt, cur, site, events, rows, snaps, now>>

\* the target date is decided and logged
DetermineTargetDate(r) ==
  /\ run[r].pc = "determine"
  /\ run' = [run EXCEPT ![r].pc = "probe", ![r].logs = Append(@, "target date")]
  /\ UNCHANGED <<rt, cur, site, events, rows, snaps, execs, now>>

\* scrapeEvents: the listing rows whose date is the target date
RECURSIVE ScrapeMatching(_, _)
ScrapeMatching(listing, targetDateOnly) ==
  IF listing = <<>> THEN <<>>
  ELSE LET e == Head(listing)
           rest == ScrapeMatching(Tail(listing), targetDateOnly)
       IN  IF NormMD(e.dateOnly) = NormMD(targetDateOnly)
           THEN <<[dateOnly |-> e.dateOnly, title |-> e.title,
                   detailUrl |-> e.detailUrl, dateYmd |-> DateYmd]>> \o rest
           ELSE rest

\* runProbe: allMatchingEvents.flatMap(...) keeps the city-league events of a
\* known category and attaches the category
RECURSIVE Classify(_)
Classify(all) ==
  IF all = <<>> THEN <<>>
  ELSE LET e == Head(all)
           a == analyzeCityLeague(e.title)
       IN  IF a.isCityLeague /\ a.category \in CatSet
           THEN <<[dateOnly |-> e.dateOnly, title |-> e.title,
                   detailUrl |-> e.detailUrl, dateYmd |-> e.dateYmd,
                   cityLeagueCategory |-> a.category]>> \o Classify(Tail(all))
           ELSE Classify(Tail(all))

\* for (const ev of events) { if (!ev.detailUrl) continue; ... }: the index
\* of the next event, from k on, for which the store is asked; 0 if none
RECURSIVE NextWithUrl(_, _)
NextWithUrl(evs, k) ==
  IF k > Len(evs) THEN 0
  ELSE IF evs[k].detailUrl # NoUrl THEN k
  ELSE NextWithUrl(evs, k + 1)

\* where the Probe continues once the loop over the classified events ends
AfterDupLoop(batch) == IF Len(batch) > 0 THEN "probe_commit" ELSE "probe_ret"

\* the Event set of the store: ids with their detailUrls
EventSet(col) == {<<id, col[id].detailUrl>> : id \in DOMAIN col}

\* Step 1: runProbe up to the first store operation of saveCityLeagueEvents
ProbeScrape(r) ==
  /\ run[r].pc = "probe"
  /\ LET all == ScrapeMatching(site.listing, DateOnly)
         classified == Classify(all)
     IN  run' = [run EXCEPT ![r].logs = Append(@, "Step 1"),
                            ![r].all = all,
                            ![r].classified = classified,
                            ![r].k = IF classified = <<>> THEN 0 ELSE 1,
                            ![r].second = \E o \in Runs \ {r} : run[o].probed,
                            ![r].probeBase = EventSet(events),
                            ![r].pc = IF classified = <<>> THEN "probe_ret"
                                      ELSE "probe_count"]
  /\ UNCHANGED <<rt, cur, site, events, rows, snaps, execs, now>>

\* snap.size of col.where('dateYmd','==',d).where('cityLeagueCategory','==',cat)
ExistingCount(dateYmd, cat) ==
  Cardinality({id \in DOMAIN events :
                 /\ events[id].dateYmd = dateYmd
                 /\ events[id].cityLeagueCategory = cat})

\* for (const cat of categories) existingCounts[toCatCode(cat)] = snap.size
ProbeCount(r) ==
  /\ run[r].pc = "probe_count"
  /\ LET cat == Categories[run[r].k]
         seqs == (toCatCode(cat) :> ExistingCount(DateYmd, cat)) @@ run[r].nextSeq
         first == NextWithUrl(run[r].classified, 1)
     IN  IF run[r].k < Len(Categories)
         THEN run' = [run EXCEPT ![r].nextSeq = seqs, ![r].k = @ + 1]
         ELSE run' = [run EXCEPT ![r].nextSeq = seqs, ![r].k = first,
                                 ![r].pc = IF first = 0 THEN AfterDupLoop(<<>>)
                                           ELSE "probe_dup"]
  /\ UNCHANGED <<rt, cur, site, events, rows, snaps, execs, now>>

\* col.where('detailUrl','==', ev.detailUrl).limit(1).get() is not empty
DupNever(detailUrl) == FALSE

DupExists(detailUrl) == \E id \in DOMAIN events : events[id].detailUrl = detailUrl

\* The document of a new event
EventDoc(ev) ==
  [title |-> ev.title, dateYmd |-> ev.dateYmd, dateOnly |-> ev.dateOnly,
   detailUrl |-> ev.detailUrl, cityLeagueCategory |-> ev.cityLeagueCategory,
   leagueType |-> "city", rankingsScraped |-> FALSE]

\* one iteration of the loop over the classified events: the duplicate
\* check and, for a new detailUrl, the id and the batched write
ProbeDupCheck(r) ==
  /\ run[r].pc = "probe_dup"
  /\ LET ev == run[r].classified[run[r].k]
         catCode == toCatCode(ev.cityLeagueCategory)
         n == run[r].nextSeq[catCode] + 1
         docId == EventDocId(ev.dateYmd, catCode, n)
         dup == DupExists(ev.detailUrl)
         batch == IF dup THEN run[r].batch
                  ELSE Append(run[r].batch, <<docId, EventDoc(ev)>>)
         next == NextWithUrl(run[r].classified, run[r].k + 1)
     IN  run' = [run EXCEPT ![r].batch = batch,
                            ![r].nextSeq = IF dup THEN @ ELSE [@ EXCEPT ![catCode] = n],
                            ![r].logs = IF dup THEN @ ELSE Append(@, "probe: " \o docId),
                            ![r].k = next,
                            ![r].pc = IF next = 0 THEN AfterDupLoop(batch)
                                      ELSE "probe_dup"]
  /\ UNCHANGED <<rt, cur, site, events, rows, snaps, execs, now>>

\* if (savedCount > 0) await withFsRetry(() => batch.commit(), ...)
ProbeCommit(r) ==
  /\ run[r].pc = "probe_commit"
  /\ events' = CommitSet(events, run[r].batch)
  /\ run' = [run EXCEPT ![r].batch = <<>>, ![r].nextSeq = <<>>, ![r].k = 0,
                        ![r].pc = "probe_ret"]
  /\ UNCHANGED <<rt, cur, site, rows, snaps, execs, now>>

\* where runFull continues after runProbe returned totalEvents
AfterProbeSkipCollect(totalEvents) == IF totalEvents = 0 THEN "notify_empty" ELSE "snap_evq"

AfterProbe(totalEvents) == IF totalEvents = 0 THEN "notify_empty" ELSE "collect_query"

\* runProbe returns; if ((probe.totalEvents || 0) === 0) the run skips to
\* the notification of an empty day
ProbeReturn(r) ==
  /\ run[r].pc = "probe_ret"
  /\ run' = [run EXCEPT ![r].classified = <<>>, ![r].nextSeq = <<>>, ![r].k = 0,
                        ![r].probed = TRUE,
                        ![r].pc = AfterProbe(Len(run[r].all))]
  /\ UNCHANGED <<rt, cur, site, events, rows, snaps, execs, now>>

\* the Slack message of a day without events; its failure is swallowed
NotifyEmpty(r) ==
  /\ run[r].pc = "notify_empty"
  /\ run' = [run EXCEPT ![r].pc = "finish"]
  /\ UNCHANGED <<rt, cur, site, events, rows, snaps, execs, now>>

(***************************************************************************)
(* Ranking Collector (steps/rankings.ts, runRankings)                      *)
(***************************************************************************)
EventIdsOfDate(dateYmd) ==
  SortEventIds({id \in DOMAIN events : events[id].dateYmd = dateYmd})

\* .filter(detailUrl).filter(leagueType city).filter(force || !rankingsScraped)
IsTarget(d, force) ==
  /\ d.detailUrl # NoUrl
  /\ d.leagueType = "city"
  /\ (force \/ d.rankingsScraped # TRUE)

\* the targets of a run, with the data read by the query
Targets(dateYmd, force) ==
  LET ids == EventIdsOfDate(dateYmd)
      hit == SelectSeq(ids, LAMBDA id : IsTarget(events[id], force))
  IN  [n \in 1..Len(hit) |->
         [id |-> hit[n], cat |-> events[hit[n]].cityLeagueCategory,
          detailUrl |-> events[hit[n]].detailUrl]]

\* for (const t of targets) { if (!catJa) continue; ... }
RECURSIVE SkipNoCategory(_)
SkipNoCategory(ts) ==
  IF ts = <<>> THEN <<>>
  ELSE IF Head(ts).cat \notin CatSet THEN SkipNoCategory(Tail(ts))
  ELSE ts

\* where runRankings continues with the targets left
CollectPc(ts) == IF ts = <<>> THEN "snap_evq" ELSE "acq_a"

\* Step 2: the query of runRankings for the events of the target date
CollectQuery(r) ==
  /\ run[r].pc = "collect_query"
  /\ LET ts == SkipNoCategory(Targets(DateYmd, run[r].force))
     IN  run' = [run EXCEPT ![r].logs = Append(@, "Step 2"),
                            ![r].targets = ts,
                            ![r].pc = CollectPc(ts)]
  /\ UNCHANGED <<rt, cur, site, events, rows, snaps, execs, now>>

\* The message of the error a tier throws on its input and response
TierError(detailUrl) ==
  IF ExtractEventHoldingId(detailUrl) = NoMatch THEN ErrNoId ELSE ErrJson

\* if (force && (!results || results.length === 0)) after the three tiers
AfterLadder(force, results) == IF force /\ results = <<>> THEN "rescue" ELSE "save"

\* if (!results || results.length === 0) -- a faulty variant that always escalates
EscalateAlways(results) == TRUE

\* if (!results || results.length === 0): the next tier is asked
Escalate(results) == results = <<>>

\* tier a: let { organizer, results } = await fetchEventRankingsViaApi(...)
AcquireApi(r) ==
  /\ run[r].pc = "acq_a"
  /\ LET t == Head(run[r].targets)
         res == fetchEventRankingsViaApi(t.detailUrl, t.cat)
     IN  IF res.threw THEN Throw(r, TierError(t.detailUrl))
         ELSE run' = [run EXCEPT ![r].organizer = res.organizer,
                                 ![r].results = res.results,
                                 ![r].calls = <<<<"a", t.cat>>>>,
                                 ![r].pc = IF Escalate(res.results) THEN "acq_b"
                                           ELSE "save"]
  /\ UNCHANGED <<rt, cur, site, events, rows, snaps, execs, now>>

\* tier b: const fb = await fetchEventRankingsViaBrowser(...)
AcquireBrowser(r) ==
  /\ run[r].pc = "acq_b"
  /\ LET t == Head(run[r].targets)
         fb == fetchEventRankingsViaBrowser(t.detailUrl, t.cat)
     IN  IF fb.threw THEN Throw(r, TierError(t.detailUrl))
         ELSE run' = [run EXCEPT ![r].organizer = fb.organizer,
                                 ![r].results = fb.results,
                                 ![r].calls = Append(@, <<"b", t.cat>>),
                                 ![r].pc = IF Escalate(fb.results) THEN "acq_c"
                                           ELSE "save"]
  /\ UNCHANGED <<rt, cur, site, events, rows, snaps, execs, now>>

\* tier c: const fh = await fetchEventRankingsViaHtml(...)
AcquireHtml(r) ==
  /\ run[r].pc = "acq_c"
  /\ LET t == Head(run[r].targets)
         fh == fetchEventRankingsViaHtml(t.detailUrl, t.cat)
     IN  IF fh.threw THEN Throw(r, TierError(t.detailUrl))
         ELSE run' = [run EXCEPT ![r].organizer = IF fh.organizer # Null
                                                  THEN fh.organizer ELSE @,
                                 ![r].results = fh.results,
                                 ![r].calls = Append(@, <<"c", t.cat>>),
                                 ![r].pc = AfterLadder(run[r].force, fh.results)]
  /\ UNCHANGED <<rt, cur, site, events, rows, snaps, execs, now>>

\* force mode: the other two categories are asked and their rows merged
ForceRescue(r) ==
  /\ run[r].pc = "rescue"
  /\ LET t == Head(run[r].targets)
         alt == AltLadder(t.detailUrl, AltCats(t.cat))
     IN  IF alt.threw THEN Throw(r, TierError(t.detailUrl))
         ELSE run' = [run EXCEPT ![r].results = DedupByPlayer(alt.merged, {}),
                                 ![r].calls = @ \o alt.calls,
                                 ![r].pc = "save"]
  /\ UNCHANGED <<rt, cur, site, events, rows, snaps, execs, now>>

\* the batch of the current target
CurrentBatch(r) ==
  LET t == Head(run[r].targets)
  IN  RowBatch(t.id, run[r].organizer, t.cat, run[r].results, 1, <<>>)

\* if (saved > 0) await withFsRetry(() => batch.commit(), ...)
SaveRows(r) ==
  /\ run[r].pc = "save"
  /\ rows' = CommitMerge(rows, CurrentBatch(r))
  /\ run' = [run EXCEPT ![r].acquired = (Head(run[r].targets).id :> run[r].results) @@ @,
                        ![r].pc = "mark"]
  /\ UNCHANGED <<rt, cur, site, events, snaps, execs, now>>

\* doc(eventDocId).set({rankingsScraped:true, ...}, {merge:true}); then the
\* loop of runRankings goes on with the next target
MarkCollected(r) ==
  /\ run[r].pc = "mark"
  /\ LET t == Head(run[r].targets)
         ts == SkipNoCategory(Tail(run[r].targets))
     IN  /\ events' = SetMerge(events, t.id, [rankingsScraped |-> TRUE])
         /\ run' = [run EXCEPT ![r].targets = ts,
                               ![r].results = <<>>, ![r].organizer = Null,
                               ![r].calls = <<>>,
                               ![r].logs = Append(@, "rankings: " \o t.id),
                               ![r].pc = CollectPc(ts)]
  /\ UNCHANGED <<rt, cur, site, rows, snaps, execs, now>>

(***************************************************************************)
(* Snapshot Builder (steps/snapshots.ts, runDailyRankingSnapshots)         *)
(* The display image url of a row comes from an external resolver and is   *)
(* read by no step of the pipeline; the rows are modelled without it.      *)
(***************************************************************************)
ChunkSize     == 10
SchemaVersion == 4

\* runFull calls runDailyRankingSnapshots({ dateYmd, force: true, logs })
SnapForce == TRUE

\* a faulty variant of RowView that names an unnamed deck null
RowViewNull(d) ==
  LET deckId == d.deckId
  IN  [rank |-> d.rank,
       deckId |-> deckId,
       deckUrl |-> IF deckId # Null THEN DeckUrl("confirm", deckId) ELSE NullUrl,
       deckName |-> IF "deckName" \in DOMAIN d THEN d.deckName ELSE Null,
       organizer |-> d.organizer,
       originalEventId |-> d.originalEventId,
       groupId |-> Null]

\* the element pushed to rankings for one row document
RowView(d) ==
  LET deckId == d.deckId
  IN  [rank |-> d.rank,
       deckId |-> deckId,
       deckUrl |-> IF deckId # Null THEN DeckUrl("confirm", deckId) ELSE NullUrl,
       deckName |-> IF "deckName" \in DOMAIN d THEN d.deckName ELSE "",
       organizer |-> d.organizer,
       originalEventId |-> d.originalEventId,
       groupId |-> Null]

\* for (let i=0;i<eventIds.length;i+=chunkSize) chunks.push(eventIds.slice(...))
RECURSIVE Chunks(_, _)
Chunks(ids, size) ==
  IF ids = <<>> THEN <<>>
  ELSE <<Slice(ids, size)>> \o Chunks(SubSeq(ids, Min(size, Len(ids)) + 1, Len(ids)), size)

\* .where('originalEventId','in', chunk).where('cityLeagueCategory','==', ja)
\* on the row collection col
RowsIn(col, chunk, ja) ==
  LET ids == {id \in DOMAIN col :
                /\ col[id].originalEventId \in Range(chunk)
                /\ col[id].cityLeagueCategory = ja}
      sorted == SortRowIds(col, ids)
  IN  [n \in 1..Len(sorted) |-> RowView(col[sorted[n]])]

RowsOfChunk(chunk, ja) == RowsIn(rows, chunk, ja)

\* a faulty variant of InsertByRank that leaves the rows in the order read
InsertLast(sorted, x) == Append(sorted, x)

\* rankings.sort((a,b)=>a.rank-b.rank): a stable sort
RECURSIVE InsertByRank(_, _)
InsertByRank(sorted, x) ==
  IF sorted = <<>> THEN <<x>>
  ELSE IF Head(sorted).rank <= x.rank
       THEN <<Head(sorted)>> \o InsertByRank(Tail(sorted), x)
       ELSE <<x>> \o sorted

RECURSIVE SortByRank(_, _)
SortByRank(rankings, acc) ==
  IF rankings = <<>> THEN acc
  ELSE SortByRank(Tail(rankings), InsertByRank(acc, Head(rankings)))

\* a faulty variant of AssignGroupIds that never advances a counter
RECURSIVE AssignGroupIdsZero(_, _, _)
AssignGroupIdsZero(ymd, rankings, counters) ==
  IF rankings = <<>> THEN <<>>
  ELSE LET r == Head(rankings)
           ev == IF r.originalEventId = Null THEN "" ELSE r.originalEventId
           gid == IF ev # "" /\ r.rank \in {1, 2, 3}
                  THEN GroupId(ymd, ev, r.rank, 0) ELSE Null
       IN  <<[r EXCEPT !.groupId = gid]>> \o AssignGroupIdsZero(ymd, Tail(rankings), counters)

\* the loop that numbers the rows of each (originalEventId, rank) and gives
\* a groupId to those of rank 1, 2 and 3
RECURSIVE AssignGroupIds(_, _, _)
AssignGroupIds(ymd, rankings, counters) ==
  IF rankings = <<>> THEN <<>>
  ELSE LET r == Head(rankings)
           ev == IF r.originalEventId = Null THEN "" ELSE r.originalEventId
           key == <<ev, r.rank>>
           n == IF key \in DOMAIN counters THEN counters[key] ELSE 0
           gid == IF ev # "" /\ r.rank \in {1, 2, 3}
                  THEN GroupId(ymd, ev, r.rank, n) ELSE Null
       IN  <<[r EXCEPT !.groupId = gid]>>
           \o AssignGroupIds(ymd, Tail(rankings), (key :> (n + 1)) @@ counters)

\* (r.organizer || '').trim(), 'unknown' when empty
OrganizerKey(organizer) == IF organizer \in {Null, ""} THEN "unknown" ELSE organizer

\* the organizers in the order of their first row
RECURSIVE OrganizersOf(_, _)
OrganizersOf(rankings, seen) ==
  IF rankings = <<>> THEN <<>>
  ELSE LET org == OrganizerKey(Head(rankings).organizer)
       IN  IF org \in seen THEN OrganizersOf(Tail(rankings), seen)
           ELSE <<org>> \o OrganizersOf(Tail(rankings), seen \cup {org})

GroupsOf(rankings) ==
  LET orgs == OrganizersOf(rankings, {})
  IN  [g \in 1..Len(orgs) |->
         [organizer |-> orgs[g],
          rankings |-> SelectSeq(rankings,
                                 LAMBDA x : OrganizerKey(x.organizer) = orgs[g])]]

\* the document of one (date, category), from the rows read
SnapshotDoc(ymd, catCode, read) ==
  LET rankings == AssignGroupIds(ymd, SortByRank(read, <<>>), <<>>)
  IN  [date |-> DateOnly, ymd |-> ymd, category |-> catCode,
       rankings |-> rankings, groups |-> GroupsOf(rankings),
       version |-> SchemaVersion]

\* where the builder continues after category number k
AfterCategory(k) == IF k < Len(Categories) THEN "snap_get" ELSE "summary"

\* Step 3: the query for the events of the date
SnapEventQuery(r) ==
  /\ run[r].pc = "snap_evq"
  /\ run' = [run EXCEPT ![r].logs = Append(@, "Step 3"),
                        ![r].eventIds = EventIdsOfDate(DateYmd),
                        ![r].k = 1,
                        ![r].pc = "snap_get"]
  /\ UNCHANGED <<rt, cur, site, events, rows, snaps, execs, now>>

\* const existing = await dailyRef.get(); a category without events to ask
\* for reads no rows and is skipped
SnapGet(r) ==
  /\ run[r].pc = "snap_get"
  /\ LET docId == SnapDocId(DateYmd, toCatCode(Categories[run[r].k]))
         skip == (docId \in DOMAIN snaps /\ ~SnapForce) \/ run[r].eventIds = <<>>
     IN  run' = [run EXCEPT ![r].rankings = <<>>,
                            ![r].j = 1,
                            ![r].k = IF skip /\ @ < Len(Categories) THEN @ + 1 ELSE @,
                            ![r].pc = IF skip THEN AfterCategory(run[r].k)
                                      ELSE "snap_rows"]
  /\ UNCHANGED <<rt, cur, site, events, rows, snaps, execs, now>>

\* the rows of one chunk of event ids; after the last chunk a category
\* without rows is skipped
SnapRows(r) ==
  /\ run[r].pc = "snap_rows"
  /\ LET chunks == Chunks(run[r].eventIds, ChunkSize)
         read == run[r].rankings \o RowsOfChunk(chunks[run[r].j], Categories[run[r].k])
         last == run[r].j = Len(chunks)
     IN  IF ~last
         THEN run' = [run EXCEPT ![r].rankings = read, ![r].j = @ + 1]
         ELSE IF read = <<>>
         THEN run' = [run EXCEPT ![r].rankings = <<>>, ![r].j = 0,
                                 ![r].k = IF @ < Len(Categories) THEN @ + 1 ELSE @,
                                 ![r].pc = AfterCategory(run[r].k)]
         ELSE run' = [run EXCEPT ![r].rankings = read, ![r].j = 0,
                                 ![r].pc = "snap_set"]
  /\ UNCHANGED <<rt, cur, site, events, rows, snaps, execs, now>>

\* await dailyRef.set({ ...snapshot, updatedAt }, { merge: true })
SnapSet(r) ==
  /\ run[r].pc = "snap_set"
  /\ LET catCode == toCatCode(Categories[run[r].k])
     IN  snaps' = SetMerge(snaps, SnapDocId(DateYmd, catCode),
                           SnapshotDoc(DateYmd, catCode, run[r].rankings))
  /\ run' = [run EXCEPT ![r].built =
                          LET catCode == toCatCode(Categories[run[r].k])
                          IN  (SnapDocId(DateYmd, catCode) :>
                                 [read |-> run[r].rankings,
                                  rankings |-> SnapshotDoc(DateYmd, catCode,
                                                           run[r].rankings).rankings]) @@ @,
                        ![r].rankings = <<>>,
                        ![r].k = IF @ < Len(Categories) THEN @ + 1 ELSE @,
                        ![r].pc = AfterCategory(run[r].k)]
  /\ UNCHANGED <<rt, cur, site, events, rows, execs, now>>

(***************************************************************************)
(* Summary counts (steps/notify.ts) and the end of a run                   *)
(***************************************************************************)
\* Step 4: the events of the date; without events no rows are read
SummaryEvents(r) ==
  /\ run[r].pc = "summary"
  /\ LET ids == SelectSeq(EventIdsOfDate(DateYmd),
                          LAMBDA id : events[id].leagueType = "city")
     IN  run' = [run EXCEPT ![r].logs = Append(@, "Step 4"),
                            ![r].eventIds = ids,
                            ![r].k = 0,
                            ![r].counts = [eventsTotal |-> Len(ids), rankingsTotal |-> 0],
                            ![r].pc = IF ids = <<>> THEN "notify" ELSE "summary_rows"]
  /\ UNCHANGED <<rt, cur, site, events, rows, snaps, execs, now>>

\* rRef.where('originalEventId','in', group).get() for each chunk of ids
SummaryRows(r) ==
  /\ run[r].pc = "summary_rows"
  /\ LET n == Cardinality({id \in DOMAIN rows :
                             rows[id].originalEventId \in Range(run[r].eventIds)})
     IN  run' = [run EXCEPT ![r].counts = [@ EXCEPT !.rankingsTotal = n],
                            ![r].pc = "notify"]
  /\ UNCHANGED <<rt, cur, site, events, rows, snaps, execs, now>>

\* the Slack message of the run; its failure is swallowed
Notify(r) ==
  /\ run[r].pc = "notify"
  /\ run' = [run EXCEPT ![r].eventIds = <<>>, ![r].pc = "finish"]
  /\ UNCHANGED <<rt, cur, site, events, rows, snaps, execs, now>>

\* await writeExec({ status:'finished', ok:true, logs, ... })
WriteExecFinished(r) ==
  /\ run[r].pc = "finish"
  /\ execs' = SetMerge(execs, run[r].id,
                       [status |-> "finished", ok |-> TRUE, logs |-> run[r].logs,
                        updatedAt |-> now])
  /\ run' = [run EXCEPT ![r].outcome = "finished", ![r].pc = "done"]
  /\ UNCHANGED <<rt, cur, site, events, rows, snaps, now>>

\* a faulty variant of the catch block that answers the caller with the error
WriteExecErrorAnswers(r) ==
  /\ run[r].pc = "failed"
  /\ execs' = SetMerge(execs, run[r].id,
                       [status |-> "error", ok |-> FALSE, error |-> run[r].error,
                        logs |-> run[r].logs, updatedAt |-> now])
  /\ run' = [run EXCEPT ![r].outcome = "error", ![r].pc = "done", ![r].transient = 0,
                        ![r].response = [status |-> 500, ok |-> FALSE, error |-> run[r].error]]
  /\ UNCHANGED <<rt, cur, site, events, rows, snaps, now>>

\* catch (e): await writeExec({ status:'error', ok:false, error, logs, ... })
WriteExecError(r) ==
  /\ run[r].pc = "failed"
  /\ execs' = SetMerge(execs, run[r].id,
                       [status |-> "error", ok |-> FALSE, error |-> run[r].error,
                        logs |-> run[r].logs, updatedAt |-> now])
  /\ run' = [run EXCEPT ![r].outcome = "error", ![r].pc = "done", ![r].transient = 0]
  /\ UNCHANGED <<rt, cur, site, events, rows, snaps, now>>

(***************************************************************************)
(* Failures of the environment                                             *)
(***************************************************************************)
\* positions at which the run awaits a store operation whose error it
\* does not catch (with or without the retry wrapper)
StorePcs == {"probe_count", "probe_dup", "probe_commit", "collect_query", "save",
             "mark", "snap_evq", "snap_get", "snap_rows", "snap_set",
             "summary", "summary_rows"}

\* withFsRetry(fn, logs, label, maxRetry = 4)
DefaultMaxRetry == 4

\* the positions whose store operation is passed to withFsRetry: the Probe's
\* queries and commit, the Collector's query, commit and event update, and
\* the queries of collectSummaryCounts; the operations of the Snapshot
\* Builder are awaited directly
WrappedPcs == {"probe_count", "probe_dup", "probe_commit", "collect_query", "save",
               "mark", "summary", "summary_rows"}

\* the number of transient errors in a row that the operation awaited at pc
\* survives
RetriesAt(pc) == IF pc \in WrappedPcs THEN DefaultMaxRetry ELSE 0

\* the store operation awaited at run[r].pc meets n transient errors in a
\* row, one or as many as withFsRetry attempts, and throws if that is more
\* than it is retried
StoreThrows(r) ==
  /\ run[r].pc \in StorePcs
  /\ run[r].pc = "save" => CurrentBatch(r) # <<>>
  /\ \E n \in {1, DefaultMaxRetry + 1} :
       /\ n > RetriesAt(run[r].pc)
       /\ run' = [Thrown(r, ErrStore) EXCEPT ![r].transient = n]
  /\ UNCHANGED <<rt, cur, site, events, rows, snaps, execs, now>>

\* the browser of scrapeEvents fails
ScrapeThrows(r) ==
  /\ run[r].pc = "probe"
  /\ Throw(r, ErrScrape)
  /\ UNCHANGED <<rt, cur, site, events, rows, snaps, execs, now>>

\* a request of an acquisition tier fails on the network
TierThrows(r) ==
  /\ run[r].pc \in {"acq_a", "acq_b", "acq_c", "rescue"}
  /\ ExtractEventHoldingId(Head(run[r].targets).detailUrl) # NoMatch
  /\ Throw(r, ErrNet)
  /\ UNCHANGED <<rt, cur, site, events, rows, snaps, execs, now>>

\* try { await execRef.set(...) } catch {}: the write fails and nothing is
\* recorded
ExecWriteFails(r) ==
  /\ run[r].pc \in {"start", "finish", "failed"}
  /\ run' = [run EXCEPT ![r].pc = IF run[r].pc = "start" THEN "determine" ELSE "done",
                        ![r].outcome = IF run[r].pc = "start" THEN @
                                       ELSE IF run[r].pc = "finish" THEN "finished"
                                       ELSE "error",
                        ![r].transient = 0]
  /\ UNCHANGED <<rt, cur, site, events, rows, snaps, execs, now>>

(***************************************************************************)
(* The data of the external site                                           *)
(***************************************************************************)
MaxLen     == 2      \* longest enumerated row list of a first page
MaxListing == 2      \* longest enumerated result listing

\* rows of the endpoint: a tie at rank 3, a row without player identifier
\* and a row of a rank that is not allowed
RowAlphabet ==
  { ApiRow(1, "p1", "d1"), ApiRow(3, "p2", NoDeck),
    ApiRow(3, NoPlayer, "d3"), ApiRow(4, "p4", "d4") }

ScenarioRanks == <<1, 2, 3, 3, 5, 9>>
ScenarioRows ==
  [k \in 1..Len(ScenarioRanks) |-> ApiRow(ScenarioRanks[k], "s" \o ToString(k), "d1")]

\* a first page of more than PerPage allowed rows
LongRanks == <<1, 2, 3, 3, 5, 5, 5, 5, 5>>
LongRows ==
  [k \in 1..Len(LongRanks) |-> ApiRow(LongRanks[k], "t" \o ToString(k), NoDeck)]

NineRows == <<ApiRow(9, "n1", "d9"), ApiRow(9, "n2", NoDeck)>>

RowLists == SeqsUpTo(RowAlphabet, MaxLen) \cup {ScenarioRows, LongRows}

FirstPagesA ==
  {Page("ok", rs) : rs \in RowLists}
    \cup {Page(kind, <<>>) : kind \in {"nonok", "nonjson", "badjson"}}

FirstPagesB ==
  { EmptyPage, Page("nonok", <<>>), Page("badjson", <<>>),
    Page("ok", <<ApiRow(2, "q1", "d2")>>) }

\* second pages, as answered to tier a and to tier b
SecondPages ==
  { <<EmptyPage, EmptyPage>>,
    <<Page("ok", NineRows), Page("ok", NineRows)>>,
    <<Page("nonjson", <<>>), Page("badjson", <<>>)>> }

NoLinks == <<<<>>, <<>>>>

HtmlLinks ==
  { NoLinks,
    << <<DeckUrl("confirm", "h1"), DeckUrl("other", NoDeck),
         DeckUrl("confirm", "h1"), DeckUrl("thumbs", "h2")>>,
       <<DeckUrl("confirm", "h3")>> >> }

\* first pages of the categories other than the event's own
AltPages == {EmptyPage, Page("ok", <<ApiRow(1, "p1", "d1"), ApiRow(2, "p1", "d1")>>)}

Quiet == [a |-> <<EmptyPage, EmptyPage>>, b |-> <<EmptyPage, EmptyPage>>]

Entry(dateOnly, title, detailUrl) ==
  [dateOnly |-> dateOnly, title |-> title, detailUrl |-> detailUrl]

\* one Open event whose responses vary
LadderSite(pa, pb, sec, links, alt) ==
  [listing |-> <<Entry("3/7", TitleOpen, Url1)>>,
   api |-> [u \in GoodUrls |-> [c \in CatSet |->
              IF u = Url1 /\ c = CatOpen
              THEN [a |-> <<pa, sec[1]>>, b |-> <<pb, sec[2]>>]
              ELSE IF u = Url1 THEN [a |-> <<alt, EmptyPage>>, b |-> Quiet.b]
              ELSE Quiet]],
   html |-> [u \in GoodUrls |-> IF u = Url1 THEN links ELSE NoLinks]]

LadderSites ==
  {LadderSite(pa, pb, sec, links, alt) :
     pa \in FirstPagesA, pb \in FirstPagesB, sec \in SecondPages,
     links \in HtmlLinks, alt \in AltPages}

\* responses of a site on which tier a answers every event
OneRow == [a |-> <<Page("ok", <<ApiRow(1, "p1", "d1")>>), EmptyPage>>, b |-> Quiet.b]
WorldApi == [api |-> [u \in GoodUrls |-> [c \in CatSet |-> OneRow]],
             html |-> [u \in GoodUrls |-> NoLinks]]

\* responses of a site on which only the rendered page has results
WorldHtml == [api |-> [u \in GoodUrls |-> [c \in CatSet |-> Quiet]],
              html |-> [u \in GoodUrls |-> CHOOSE l \in HtmlLinks : l # NoLinks]]

\* responses of a site that files every result under Senior
WorldAlt == [api |-> [u \in GoodUrls |-> [c \in CatSet |->
                        IF c = CatSenior
                        THEN [a |-> <<Page("ok", <<ApiRow(1, "p1", "d1"),
                                                   ApiRow(3, "p2", NoDeck),
                                                   ApiRow(3, "p3", "d3")>>),
                                      EmptyPage>>,
                              b |-> Quiet.b]
                        ELSE Quiet]],
             html |-> [u \in GoodUrls |-> NoLinks]]

SiteOf(listing, world) == [listing |-> listing, api |-> world.api, html |-> world.html]

ListingAlphabet ==
  { Entry("3/7", TitleOpen, Url1),       Entry("03/07", TitleSenior, Url2),
    Entry("3/7", TitleJunior, Url1),     Entry("3/7", TitleOpen, NoUrl),
    Entry("3/8", TitleOpen, Url2),       Entry("3/7", TitleOther, Url2),
    Entry("3/7", TitleCityOnly, Url2),   Entry("3/7", TitleOpen, UrlNoId) }

ListingSites == {SiteOf(l, WorldApi) : l \in SeqsUpTo(ListingAlphabet, MaxListing)}

\* the deck links of a long result page: ten anchors, one of them not a deck
\* and one a repetition, nine distinct decks
LongLinks(tag) ==
  <<DeckUrl("confirm", tag \o "1"), DeckUrl("other", NoDeck),
    DeckUrl("thumbs", tag \o "2"), DeckUrl("confirm", tag \o "1"),
    DeckUrl("players", tag \o "3"), DeckUrl("confirm", tag \o "4"),
    DeckUrl("confirm", tag \o "5"), DeckUrl("confirm", tag \o "6"),
    DeckUrl("confirm", tag \o "7"), DeckUrl("confirm", tag \o "8"),
    DeckUrl("confirm", tag \o "9")>>

\* one event, of category Open or Senior, whose results are on the rendered
\* pages only: a long or a short first page, and an empty, a long or a
\* repeated second page
HtmlSites ==
  { [listing |-> <<Entry("3/7", title, Url1)>>,
     api |-> [u \in GoodUrls |-> [c \in CatSet |-> Quiet]],
     html |-> [u \in GoodUrls |-> <<p1, p2>>]] :
       title \in {TitleOpen, TitleSenior},
       p1 \in {LongLinks("k"), SubSeq(LongLinks("k"), 1, 5)},
       p2 \in {<<>>, LongLinks("m"), SubSeq(LongLinks("k"), 8, 11)} }

\* one Senior event without results of its own, on any tier; Open answers
\* tier b or not, Junior answers tier a or not, and the rendered pages have
\* no deck link or one on the second page only
RescueSites ==
  { [listing |-> <<Entry("3/7", TitleSenior, Url1)>>,
     api |-> [u \in GoodUrls |-> [c \in CatSet |->
                IF c = CatOpen THEN [a |-> Quiet.a, b |-> <<pb, EmptyPage>>]
                ELSE IF c = CatJunior THEN [a |-> <<pj, EmptyPage>>, b |-> Quiet.b]
                ELSE Quiet]],
     html |-> [u \in GoodUrls |-> <<<<>>, p2>>]] :
       pb \in {EmptyPage, Page("ok", <<ApiRow(1, "p1", "d1"), ApiRow(2, NoPlayer, "d2"),
                                       ApiRow(3, "p2", NoDeck)>>)},
       pj \in {EmptyPage, Page("ok", <<ApiRow(1, "p2", "d4"), ApiRow(2, "p3", "d5"),
                                       ApiRow(3, "p1", "d1")>>)},
       p2 \in {<<>>, <<DeckUrl("confirm", "h3")>>} }

\* the sites of overlapping runs: one event, two events of two categories,
\* two events of one category read from the rendered page, one detail url
\* listed twice, results filed under another category, a listing without
\* city-league events, a detail url without id, and an empty listing
ConcSites ==
  { SiteOf(<<Entry("3/7", TitleOpen, Url1)>>, WorldApi),
    SiteOf(<<Entry("3/7", TitleOpen, Url1), Entry("03/07", TitleSenior, Url2)>>, WorldApi),
    SiteOf(<<Entry("3/7", TitleOpen, Url1), Entry("3/7", TitleOpen, Url2)>>, WorldHtml),
    SiteOf(<<Entry("3/7", TitleOpen, Url1), Entry("3/7", TitleJunior, Url1)>>, WorldApi),
    SiteOf(<<Entry("3/7", TitleOpen, Url1)>>, WorldAlt),
    SiteOf(<<Entry("3/7", TitleOther, Url2)>>, WorldApi),
    SiteOf(<<Entry("3/7", TitleOpen, UrlNoId)>>, WorldApi),
    SiteOf(<<>>, WorldApi) }

(***************************************************************************)
(* Specifications                                                          *)
(***************************************************************************)
NoDocs == [id \in {} |-> Null]

InitOn(sites) ==
  /\ rt = RtIdle
  /\ site \in sites
  /\ events = NoDocs
  /\ rows = NoDocs
  /\ snaps = NoDocs
  /\ execs = NoDocs
  /\ now = 0
  /\ run = [r \in Runs |-> RunIdle]
  /\ cur = CurIdle

\* the steps of run r that the code takes when nothing outside fails
Step(r) ==
  \/ \E force \in BOOLEAN : Trigger(r, force)
  \/ WriteExecStart(r)
  \/ DetermineTargetDate(r)
  \/ ProbeScrape(r)
  \/ ProbeCount(r)
  \/ ProbeDupCheck(r)
  \/ ProbeCommit(r)
  \/ ProbeReturn(r)
  \/ NotifyEmpty(r)
  \/ CollectQuery(r)
  \/ AcquireApi(r)
  \/ AcquireBrowser(r)
  \/ AcquireHtml(r)
  \/ ForceRescue(r)
  \/ SaveRows(r)
  \/ MarkCollected(r)
  \/ SnapEventQuery(r)
  \/ SnapGet(r)
  \/ SnapRows(r)
  \/ SnapSet(r)
  \/ SummaryEvents(r)
  \/ SummaryRows(r)
  \/ Notify(r)
  \/ WriteExecFinished(r)
  \/ WriteExecError(r)

\* the failures of the store and of the network during run r
Fault(r) ==
  \/ StoreThrows(r)
  \/ ScrapeThrows(r)
  \/ TierThrows(r)
  \/ ExecWriteFails(r)

\* one run, in an environment that can fail
Init == InitOn(LadderSites \cup ListingSites \cup HtmlSites \cup RescueSites)
Next == Step(RunA) \/ Fault(RunA)
Spec == Init /\ [][Next]_vars

\* two runs that may overlap, in an environment that does not fail
InitConc == InitOn(ConcSites)
NextConc == \E r \in Runs : Step(r)
SpecConc == InitConc /\ [][NextConc]_vars

\* one execution of a retry wrapper
InitRetry ==
  /\ \E fn \in RetryFns, maxRetry \in 0..MaxRetryArg : rt = RtInit(fn, maxRetry)
  /\ site = SiteOf(<<>>, WorldApi)
  /\ events = NoDocs
  /\ rows = NoDocs
  /\ snaps = NoDocs
  /\ execs = NoDocs
  /\ now = 0
  /\ run = [r \in Runs |-> RunIdle]
  /\ cur = CurIdle

SpecRetry == InitRetry /\ [][RetryNext]_vars

(***************************************************************************)
(* The processes outside the pipeline that update RankingRows              *)
(***************************************************************************)
MaxCurated == 2

DeckNameX == "Deck X"

\* the number of updates of RankingRows by these processes that are in the store
Curated ==
  Cardinality({id \in DOMAIN rows : rows[id].imageStored})
    + Cardinality({id \in DOMAIN rows : "deckName" \in DOMAIN rows[id]})

\* the image step: the deck image of a row whose imageStored is false has
\* been stored, and the row is updated with imageStored: true
StoreImage(id) ==
  /\ Curated < MaxCurated
  /\ ~rows[id].imageStored
  /\ rows' = SetMerge(rows, id, [imageStored |-> TRUE])
  /\ UNCHANGED <<rt, cur, site, events, snaps, execs, now, run>>

\* the curator gives the deck of a row a name, by a partial update
AssignDeckName(id) ==
  /\ Curated < MaxCurated
  /\ "deckName" \notin DOMAIN rows[id]
  /\ rows' = SetMerge(rows, id, [deckName |-> DeckNameX])
  /\ UNCHANGED <<rt, cur, site, events, snaps, execs, now, run>>

\* a run, then a second run after the first has ended, while images are
\* stored and decks named
NextCur ==
  \/ Step(RunA)
  \/ run[RunA].pc = "done" /\ Step(RunB)
  \/ \E id \in DOMAIN rows : StoreImage(id)
  \/ \E id \in DOMAIN rows : AssignDeckName(id)

SpecCur == InitConc /\ [][NextCur]_vars

(***************************************************************************)
(* Two snapshot builds over the same rows, when the order in which a query *)
(* returns its documents is left to the store                              *)
(***************************************************************************)
MaxBuildRows == 2

\* rSnap.docs of a query without orderBy: the documents in any order
StoreOrders(docs) ==
  LET n == Len(docs)
      perms == {f \in [1..n -> 1..n] : \A i, j \in 1..n : f[i] = f[j] => i = j}
  IN  {[i \in 1..n |-> docs[f[i]]] : f \in perms}

\* SnapRows with the documents of the query in any order
SnapRowsAnyOrder(r) ==
  /\ run[r].pc = "snap_rows"
  /\ \E docs \in StoreOrders(RowsOfChunk(Chunks(run[r].eventIds, ChunkSize)[run[r].j],
                                         Categories[run[r].k])) :
       LET chunks == Chunks(run[r].eventIds, ChunkSize)
           read == run[r].rankings \o docs
           last == run[r].j = Len(chunks)
       IN  IF ~last
           THEN run' = [run EXCEPT ![r].rankings = read, ![r].j = @ + 1]
           ELSE IF read = <<>>
           THEN run' = [run EXCEPT ![r].rankings = <<>>, ![r].j = 0,
                                   ![r].k = IF @ < Len(Categories) THEN @ + 1 ELSE @,
                                   ![r].pc = AfterCategory(run[r].k)]
           ELSE run' = [run EXCEPT ![r].rankings = read, ![r].j = 0,
                                   ![r].pc = "snap_set"]
  /\ UNCHANGED <<rt, cur, site, events, rows, snaps, execs, now>>

\* the result rows an event can have
BuildRowAlphabet == {ApiRow(1, "p1", "d1"), ApiRow(3, "p2", "d2"), ApiRow(3, "p3", "d3")}

\* one Open event with the result rows l, and with or without a second Open
\* event that has one row
BuildSite(l, two) ==
  [listing |-> IF two THEN <<Entry("3/7", TitleOpen, Url1), Entry("3/7", TitleOpen, Url2)>>
               ELSE <<Entry("3/7", TitleOpen, Url1)>>,
   api |-> [u \in GoodUrls |-> [c \in CatSet |->
              IF u = Url1 THEN [a |-> <<Page("ok", l), EmptyPage>>, b |-> Quiet.b]
              ELSE OneRow]],
   html |-> [u \in GoodUrls |-> NoLinks]]

BuildSites == {BuildSite(l, two) : l \in SeqsUpTo(BuildRowAlphabet, MaxBuildRows), two \in BOOLEAN}

(***************************************************************************)
(* The read of the most recent execution                                   *)
(***************************************************************************)
MaxTick == 2

\* the instant an execution id was derived from
ExecIdMs(id) == CHOOSE ms \in 0..(MaxTick + 1) : ExecId(ms) = id

\* GET /pokemon-events/auto-run/latest: orderBy('updatedAt','desc').limit(1);
\* among records with equal updatedAt the order is that of the document ids,
\* descending as well
LatestExecution(col) ==
  CHOOSE id \in DOMAIN col :
    \A o \in DOMAIN col \ {id} :
       \/ col[o].updatedAt < col[id].updatedAt
       \/ col[o].updatedAt = col[id].updatedAt /\ ExecIdMs(o) < ExecIdMs(id)

\* time passes before a run writes its ExecutionRecord
Tick ==
  /\ now < MaxTick
  /\ \E r \in Runs : run[r].pc \in {"start", "finish", "failed"}
  /\ now' = now + 1
  /\ UNCHANGED <<rt, cur, site, events, rows, snaps, execs, run>>

\* the sites of the runs whose records are read
LatestSites ==
  { SiteOf(<<Entry("3/7", TitleOpen, Url1)>>, WorldApi),
    SiteOf(<<Entry("3/7", TitleOpen, Url1)>>, WorldAlt),
    SiteOf(<<Entry("3/7", TitleOpen, UrlNoId)>>, WorldApi),
    SiteOf(<<>>, WorldApi) }

\* two runs that may overlap, while time passes
InitLatest == InitOn(LatestSites)
NextLatest == NextConc \/ Tick
SpecLatest == InitLatest /\ [][NextLatest]_vars

(***************************************************************************)
(* Curation of a snapshot (server.ts, POST /admin/days/:id/decks:batchUpdate) *)
(* The summaries recomputed after an update are collections no step of the *)
(* pipeline reads; they are not modelled.                                  *)
(***************************************************************************)
MaxItems == 2          \* the items of one request
MaxNameLength == 64    \* if (deckName.length > 64)

DeckNameY == "Deck Y"
Blank     == " "
LongName  == "a deck name of sixty-five characters"

\* String(x || '').trim()
Trim(s) == IF s = Blank THEN "" ELSE s

\* deckName.length
NameLength(s) ==
  CASE s = ""        -> 0
    [] s = Blank     -> 1
    [] s = LongName  -> 65
    [] OTHER         -> 6

\* map.has(gid), map.get(gid): the map is kept as the sequence of its
\* entries, in insertion order
MapHas(map, gid) == \E k \in 1..Len(map) : map[k][1] = gid
MapGet(map, gid) == map[CHOOSE k \in 1..Len(map) : map[k][1] = gid][2]

\* a faulty variant of Validate that gives up the batch at the first item
\* that fails
RECURSIVE ValidateAllOrNothing(_, _, _, _)
ValidateAllOrNothing(itemsRaw, map, seen, errors) ==
  IF itemsRaw = <<>> THEN [map |-> map, errors |-> errors]
  ELSE LET groupId == Trim(Head(itemsRaw).groupId)
           deckName == Trim(Head(itemsRaw).deckName)
       IN  IF groupId = "" \/ groupId \in seen \/ deckName = ""
              \/ NameLength(deckName) > MaxNameLength
           THEN [map |-> <<>>, errors |-> Append(errors, [groupId |-> groupId, code |-> "invalid"])]
           ELSE ValidateAllOrNothing(Tail(itemsRaw), Append(map, <<groupId, deckName>>),
                                     seen \cup {groupId}, errors)

\* for (const it of itemsRaw) {...}: the entries accepted and the errors
RECURSIVE Validate(_, _, _, _)
Validate(itemsRaw, map, seen, errors) ==
  IF itemsRaw = <<>> THEN [map |-> map, errors |-> errors]
  ELSE LET groupId == Trim(Head(itemsRaw).groupId)
           deckName == Trim(Head(itemsRaw).deckName)
           rest == Tail(itemsRaw)
       IN  IF groupId = ""
           THEN Validate(rest, map, seen,
                         Append(errors, [groupId |-> "", code |-> "invalid-groupId"]))
           ELSE IF groupId \in seen
           THEN Validate(rest, map, seen,
                         Append(errors, [groupId |-> groupId, code |-> "duplicate-groupId"]))
           ELSE IF deckName = ""
           THEN Validate(rest, map, seen \cup {groupId},
                         Append(errors, [groupId |-> groupId, code |-> "invalid-deckName"]))
           ELSE IF NameLength(deckName) > MaxNameLength
           THEN Validate(rest, map, seen \cup {groupId},
                         Append(errors, [groupId |-> groupId, code |-> "too-long"]))
           ELSE Validate(rest, Append(map, <<groupId, deckName>>),
                         seen \cup {groupId}, errors)

\* rankings[i] = { ...rankings[i], deckName: map.get(gid) } for the rows
\* whose groupId is in the map
Renamed(rankings, map) ==
  [i \in 1..Len(rankings) |->
     IF rankings[i].groupId # Null /\ MapHas(map, rankings[i].groupId)
     THEN [rankings[i] EXCEPT !.deckName = MapGet(map, rankings[i].groupId)]
     ELSE rankings[i]]

\* updatedIds.push(gid), in the order of rankings
RECURSIVE UpdatedIds(_, _)
UpdatedIds(rankings, map) ==
  IF rankings = <<>> THEN <<>>
  ELSE (IF Head(rankings).groupId # Null /\ MapHas(map, Head(rankings).groupId)
        THEN <<Head(rankings).groupId>> ELSE <<>>) \o UpdatedIds(Tail(rankings), map)

\* for (const [gid] of map.entries()): the entries whose groupId is neither
\* in rankings nor in groups
RECURSIVE NotFound(_, _)
NotFound(map, data) ==
  IF map = <<>> THEN <<>>
  ELSE LET gid == Head(map)[1]
           existsInRankings == \E i \in 1..Len(data.rankings) : data.rankings[i].groupId = gid
           existsInGroups ==
             \E g \in 1..Len(data.groups) :
               \E i \in 1..Len(data.groups[g].rankings) : data.groups[g].rankings[i].groupId = gid
       IN  (IF ~existsInRankings /\ ~existsInGroups
            THEN <<[groupId |-> gid, code |-> "group-not-found"]>> ELSE <<>>)
           \o NotFound(Tail(map), data)

\* the handler: validation, then one transaction on the snapshot document,
\* then the response
BatchUpdate(id, itemsRaw) ==
  /\ cur = CurIdle
  /\ run[RunA].pc = "done" /\ run[RunB].pc = "idle"
  /\ LET v == Validate(itemsRaw, <<>>, {}, <<>>)
     IN  IF id \notin DOMAIN snaps
         THEN /\ snaps' = snaps
              /\ cur' = [id |-> id, items |-> itemsRaw,
                         response |-> [status |-> 404, ok |-> FALSE, error |-> "not-found"]]
         ELSE LET data == snaps[id]
                  updatedIds == UpdatedIds(data.rankings, v.map)
                  groups == [g \in 1..Len(data.groups) |->
                               [data.groups[g] EXCEPT !.rankings = Renamed(@, v.map)]]
              IN  /\ snaps' = SetMerge(snaps, id,
                                       [rankings |-> Renamed(data.rankings, v.map),
                                        groups |-> groups])
                  /\ cur' = [id |-> id, items |-> itemsRaw,
                             response |-> [status |-> 200, ok |-> TRUE,
                                           updatedCount |-> Len(updatedIds),
                                           errors |-> v.errors \o NotFound(v.map, data),
                                           updatedIds |-> updatedIds]]
  /\ UNCHANGED <<rt, site, events, rows, execs, now, run>>

\* the curator names the deck of one row, by a partial update of the row
NameRow(id) ==
  /\ cur = CurIdle
  /\ run[RunA].pc = "done" /\ run[RunB].pc = "idle"
  /\ \A other \in DOMAIN rows : "deckName" \notin DOMAIN rows[other]
  /\ AssignDeckName(id)

\* the groupIds of the first rows of rank 1 and 3 of the first Open event
GroupOne   == GroupId(DateYmd, EventDocId(DateYmd, "open", 1), 1, 0)
GroupThree == GroupId(DateYmd, EventDocId(DateYmd, "open", 1), 3, 0)

\* items with an empty, a known and an unknown groupId, and with a blank, a
\* short and an over-long name
ItemAlphabet ==
  { [groupId |-> "", deckName |-> DeckNameX],
    [groupId |-> GroupOne, deckName |-> DeckNameX],
    [groupId |-> GroupOne, deckName |-> DeckNameY],
    [groupId |-> GroupOne, deckName |-> Blank],
    [groupId |-> GroupThree, deckName |-> DeckNameY],
    [groupId |-> GroupThree, deckName |-> LongName],
    [groupId |-> "20250307_event-none_1_00", deckName |-> DeckNameX] }

\* one Open event with rows of rank 1, 3 and 5
CurateSite ==
  SiteOf(<<Entry("3/7", TitleOpen, Url1)>>,
         [api |-> [u \in GoodUrls |-> [c \in CatSet |->
                     [a |-> <<Page("ok", <<ApiRow(1, "p1", "d1"), ApiRow(3, "p2", "d2"),
                                           ApiRow(5, "p5", "d5")>>), EmptyPage>>,
                      b |-> Quiet.b]]],
          html |-> [u \in GoodUrls |-> NoLinks]])

CurateSites == LatestSites \cup {CurateSite}

InitCurate == InitOn(CurateSites)

\* a run; then the curator names rows and snapshot entries; then a second
\* run for the same date
NextCurate ==
  \/ Step(RunA)
  \/ \E id \in DOMAIN rows : NameRow(id)
  \/ \E itemsRaw \in SeqsUpTo(ItemAlphabet, MaxItems) :
       BatchUpdate(SnapDocId(DateYmd, "open"), itemsRaw)
  \/ cur # CurIdle /\ Step(RunB)

SpecCurate == InitCurate /\ [][NextCurate]_vars

(***************************************************************************)
(* Properties                                                              *)
(***************************************************************************)
\* every error thrown so far is one the wrapper in use retries
AllTransient ==
  \A k \in 1..Len(rt.errs) :
     rt.fn = "withFsRetry" => isRetryableFirestoreError(rt.errs[k])

TiersAsked(r) == [k \in 1..Len(run[r].calls) |-> run[r].calls[k][1]]

\* the documents of collection col that belong to event id
RowIdsOf(col, eventId) == {id \in DOMAIN col : col[id].originalEventId = eventId}

\* the first non-empty of three row lists, the empty list if there is none
FirstNonEmpty(a, b, c) == IF a # <<>> THEN a ELSE IF b # <<>> THEN b ELSE c

\* C1: while one event is collected without force-rescue, tier b is asked
\* only if tier a returned no rows and tier c only if tiers a and b returned
\* none; the rows kept, and the rows persisted for the event, are those of
\* the first tier that returned any, never a merge of several tiers.
C1_LadderEscalation ==
  \A r \in Runs :
    (run[r].pc \in {"acq_b", "acq_c", "rescue", "save", "mark"} /\ Len(run[r].calls) <= 3) =>
      LET t == Head(run[r].targets)
          outA == fetchEventRankingsViaApi(t.detailUrl, t.cat).results
          outB == fetchEventRankingsViaBrowser(t.detailUrl, t.cat).results
          outC == fetchEventRankingsViaHtml(t.detailUrl, t.cat).results
          tiers == TiersAsked(r)
          kept == FirstNonEmpty(outA, outB, outC)
          ids == RowIdsOf(rows, t.id)
      IN  /\ tiers \in {<<"a">>, <<"a", "b">>, <<"a", "b", "c">>}
          /\ (run[r].pc = "acq_b" \/ "b" \in Range(tiers)) => outA = <<>>
          /\ (run[r].pc = "acq_c" \/ "c" \in Range(tiers)) => (outA = <<>> /\ outB = <<>>)
          /\ run[r].pc \in {"save", "mark"} =>
                /\ run[r].results = kept
                /\ outA # <<>> => tiers = <<"a">>
                /\ (outA = <<>> /\ outB # <<>>) => tiers = <<"a", "b">>
          /\ run[r].pc = "mark" =>
                /\ Cardinality(ids) =
                     Cardinality({k \in 1..Len(kept) : kept[k].player_id # NoPlayer})
                /\ \A id \in ids :
                     \E k \in 1..Len(kept) :
                        /\ rows[id].rank = kept[k].rank
                        /\ rows[id].deckId =
                             (IF kept[k].deck_id = NoDeck THEN Null ELSE kept[k].deck_id)

\* C1 witness: tiers a and b returned nothing, tier c was asked and its rows
\* were persisted
C1_Witness ==
  /\ run[RunA].pc = "mark"
  /\ TiersAsked(RunA) = <<"a", "b", "c">>
  /\ run[RunA].results # <<>>
  /\ RowIdsOf(rows, Head(run[RunA].targets).id) # {}

\* the indices of the rows of a list that the persistence loop keeps
KeptIdx(res) == {k \in 1..Len(res) : res[k].player_id # NoPlayer}

\* the number of kept rows before index k that have the rank of row k
EarlierSameRank(res, k) ==
  Cardinality({m \in KeptIdx(res) : m < k /\ res[m].rank = res[k].rank})

\* C4: within one event each persisted row has the sequence number that
\* counts the earlier persisted rows of the same rank (rows without player
\* identifier consume none), (rank, sequence) is unique in the event, the id
\* is rank-<eventKey>-<rank>-<two-digit sequence>, and ranks [1,2,3,3,5,9]
\* receive the sequences [0,0,0,1,0,0].
C4_PerRankSequence ==
  \A r \in Runs :
    run[r].pc = "mark" =>
      LET t == Head(run[r].targets)
          res == run[r].results
          ids == RowIdsOf(rows, t.id)
          key == CHOOSE x \in {EventKey(DateYmd, p[1], p[2]) : p \in EventIdParts} :
                    "event-" \o x = t.id
          idOf(k) == "rank-" \o key \o "-" \o ToString(res[k].rank) \o "-0"
                       \o ToString(EarlierSameRank(res, k))
      IN  /\ ids = {idOf(k) : k \in KeptIdx(res)}
          /\ \A k \in KeptIdx(res) :
                /\ rows[idOf(k)].rank = res[k].rank
                /\ rows[idOf(k)].positionIndex = EarlierSameRank(res, k)
          /\ \A a, b \in ids :
                (rows[a].rank = rows[b].rank /\ rows[a].positionIndex = rows[b].positionIndex)
                  => a = b
          /\ Cardinality(ids) = Cardinality(KeptIdx(res))
          /\ [k \in 1..Len(res) |-> res[k].rank] = <<1, 2, 3, 3, 5, 9>> /\ KeptIdx(res) = 1..6 =>
                ids = { "rank-" \o key \o "-1-00", "rank-" \o key \o "-2-00",
                        "rank-" \o key \o "-3-00", "rank-" \o key \o "-3-01",
                        "rank-" \o key \o "-5-00", "rank-" \o key \o "-9-00" }

\* C4 witness: the rows of ranks [1,2,3,3,5,9] have been persisted
C4_Witness ==
  /\ run[RunA].pc = "mark"
  /\ [k \in 1..Len(run[RunA].results) |-> run[RunA].results[k].rank] = <<1, 2, 3, 3, 5, 9>>
  /\ "rank-20250307-open-01-3-01" \in DOMAIN rows
  /\ rows["rank-20250307-open-01-3-01"].positionIndex = 1

\* C4 witness of the skipped row: a row without player identifier precedes a
\* row of the same rank, which still receives sequence 0
C4_WitnessSkip ==
  /\ run[RunA].pc = "mark"
  /\ Len(run[RunA].results) = 2
  /\ run[RunA].results[1].player_id = NoPlayer
  /\ run[RunA].results[1].rank = run[RunA].results[2].rank
  /\ run[RunA].results[2].player_id # NoPlayer

\* the phase a position of a run belongs to: 1 DetermineTargetDate, 2 Probe,
\* 3 Collect, 4 BuildSnapshots, 5 SummarizeCounts, 6 Notify, 7 Finish
Phase(pc) ==
  IF pc = "determine" THEN 1
  ELSE IF pc \in {"probe", "probe_count", "probe_dup", "probe_commit", "probe_ret"} THEN 2
  ELSE IF pc \in {"collect_query", "acq_a", "acq_b", "acq_c", "rescue", "save", "mark"} THEN 3
  ELSE IF pc \in {"snap_evq", "snap_get", "snap_rows", "snap_set"} THEN 4
  ELSE IF pc \in {"summary", "summary_rows"} THEN 5
  ELSE IF pc = "notify" THEN 6
  ELSE IF pc = "finish" THEN 7
  ELSE 0

\* the positions at which a phase is complete
PhaseEnds(n) ==
  IF n = 1 THEN {"determine"}
  ELSE IF n = 2 THEN {"probe_ret"}
  ELSE IF n = 3 THEN {"collect_query", "mark"}
  ELSE IF n = 4 THEN {"snap_get", "snap_rows", "snap_set"}
  ELSE IF n = 5 THEN {"summary", "summary_rows"}
  ELSE IF n = 6 THEN {"notify"}
  ELSE IF n = 7 THEN {"finish"}
  ELSE {}

\* the step log lines of a run, in order
StepLogs(logs) == SelectSeq(logs, LAMBDA l : l \in {"Step 1", "Step 2", "Step 3", "Step 4"})

\* one step of run r keeps the order of the phases and the one-at-a-time
\* processing of the events
OrderedStep(r) ==
  LET pc == run[r].pc
      pcN == run'[r].pc
      inEvent == {"acq_a", "acq_b", "acq_c", "rescue", "save"}
  IN  (run[r].all # <<>> /\ Phase(pc) >= 2 /\ pcN # pc /\ pcN # "failed") =>
        /\ pcN # "notify_empty"
        /\ Phase(pcN) # Phase(pc) =>
              /\ pc \in PhaseEnds(Phase(pc))
              /\ IF Phase(pc) = 7 THEN pcN = "done" ELSE Phase(pcN) = Phase(pc) + 1
        /\ pc \in inEvent =>
              /\ pcN \in inEvent \cup {"mark"}
              /\ run'[r].targets = run[r].targets
        /\ pcN = "acq_a" => pc \in {"collect_query", "mark"}
        /\ (pc = "mark" /\ pcN = "acq_a") => run'[r].targets = Tail(run[r].targets)

\* C7: in a run whose Probe found at least one event the phases
\* DetermineTargetDate, Probe, Collect, BuildSnapshots, SummarizeCounts, Notify
\* and Finish execute in this order, each starting only when the previous one
\* is complete, and inside Collect the acquisition and persistence of one
\* event are over before those of the next event begin.
C7_PhaseOrder ==
  /\ [][\A r \in Runs : OrderedStep(r)]_vars
  /\ [](\A r \in Runs :
          (run[r].all # <<>> /\ run[r].outcome = "finished") =>
             StepLogs(run[r].logs) = <<"Step 1", "Step 2", "Step 3", "Step 4">>)

\* C7 witness: a run that found two events collected both and finished
C7_Witness ==
  /\ run[RunA].pc = "done"
  /\ run[RunA].outcome = "finished"
  /\ Cardinality(DOMAIN events) = 2
  /\ \A id \in DOMAIN events : events[id].rankingsScraped /\ RowIdsOf(rows, id) # {}
  /\ DOMAIN snaps # {}

\* the ExecutionRecord of run r
RecordOf(r) == IF run[r].id \in DOMAIN execs THEN execs[run[r].id] ELSE [status |-> "absent"]

\* C8: when the Probe reports no matching event the run invokes neither the
\* Collector nor the Snapshot Builder nor the summary counts, and its
\* ExecutionRecord ends with status finished and ok = true.
C8_ZeroEventDay ==
  \A r \in Runs :
    (run[r].probed /\ run[r].all = <<>>) =>
      /\ StepLogs(run[r].logs) = <<"Step 1">>
      /\ run[r].pc \in {"notify_empty", "finish", "done"}
      /\ DOMAIN rows = {} /\ DOMAIN snaps = {}
      /\ run[r].pc = "done" =>
            (RecordOf(r).status = "finished" /\ RecordOf(r).ok = TRUE)

\* C9: when a phase of a run raises an exception no later phase runs, the
\* run is not started again, and its ExecutionRecord is written with status
\* error, ok = false, the message of the exception and the logs so far.
C9_ErrorRecorded ==
  \A r \in Runs :
    (run[r].pc = "done" /\ run[r].outcome = "error") =>
      /\ RecordOf(r).status = "error"
      /\ RecordOf(r).ok = FALSE
      /\ RecordOf(r).error = run[r].error
      /\ RecordOf(r).logs = run[r].logs

\* C10: a network or parse failure inside an acquisition tier counts as the
\* tier returning no rows and never ends the run; the only acquisition input
\* that raises an error is a detail url without event id.
C10_TierFailureAbsorbed ==
  \A r \in Runs :
    run[r].pc \in {"failed", "done"} => run[r].error \notin {ErrNet, ErrJson}

(***************************************************************************)
(* One run alone, from an empty store, as a function of the site           *)
(***************************************************************************)
\* the loop of saveCityLeagueEvents when no event of the listing is stored
RECURSIVE SoloProbeBatch(_, _)
SoloProbeBatch(evs, nextSeq) ==
  IF evs = <<>> THEN <<>>
  ELSE LET ev == Head(evs)
           catCode == toCatCode(ev.cityLeagueCategory)
           n == nextSeq[catCode] + 1
       IN  IF ev.detailUrl = NoUrl THEN SoloProbeBatch(Tail(evs), nextSeq)
           ELSE <<<<EventDocId(ev.dateYmd, catCode, n), EventDoc(ev)>>>>
                \o SoloProbeBatch(Tail(evs), [nextSeq EXCEPT ![catCode] = n])

\* the ladder of saveRankingsForEventLocal for one event
SoloLadder(detailUrl, cat, force) ==
  LET a == fetchEventRankingsViaApi(detailUrl, cat)
      b == fetchEventRankingsViaBrowser(detailUrl, cat)
      c == fetchEventRankingsViaHtml(detailUrl, cat)
      toB == a.results = <<>>
      toC == toB /\ b.results = <<>>
      organizer == IF ~toB THEN a.organizer
                   ELSE IF toC /\ c.organizer # Null THEN c.organizer
                   ELSE b.organizer
      results == FirstNonEmpty(a.results, b.results, c.results)
  IN  [organizer |-> organizer,
       results |-> IF force /\ results = <<>>
                   THEN DedupByPlayer(AltLadder(detailUrl, AltCats(cat)).merged, {})
                   ELSE results]

\* the loop of runRankings over the events ids, all of them targets
RECURSIVE SoloRows(_, _, _, _)
SoloRows(ids, evs, col, force) ==
  IF ids = <<>> THEN col
  ELSE LET id == Head(ids)
           l == SoloLadder(evs[id].detailUrl, evs[id].cityLeagueCategory, force)
       IN  SoloRows(Tail(ids), evs,
                    CommitMerge(col, RowBatch(id, l.organizer, evs[id].cityLeagueCategory,
                                              l.results, 1, <<>>)),
                    force)

\* the loop of runDailyRankingSnapshots over the categories from number k on
RECURSIVE SoloSnaps(_, _, _, _)
SoloSnaps(k, ids, col, acc) ==
  IF k > Len(Categories) THEN acc
  ELSE LET catCode == toCatCode(Categories[k])
           read == IF ids = <<>> THEN <<>> ELSE RowsIn(col, ids, Categories[k])
       IN  SoloSnaps(k + 1, ids, col,
                     IF read = <<>> THEN acc
                     ELSE SetMerge(acc, SnapDocId(DateYmd, catCode),
                                   SnapshotDoc(DateYmd, catCode, read)))

\* the Event, RankingRow and DailySnapshot documents one run leaves
SoloRun(force) ==
  LET all == ScrapeMatching(site.listing, DateOnly)
      stored == CommitSet(NoDocs, SoloProbeBatch(Classify(all), [c \in CatCodes |-> 0]))
      ids == SortEventIds(DOMAIN stored)
      rws == SoloRows(ids, stored, NoDocs, force)
  IN  IF all = <<>> THEN [events |-> stored, rows |-> NoDocs, snaps |-> NoDocs]
      ELSE [events |-> [id \in DOMAIN stored |-> [stored[id] EXCEPT !.rankingsScraped = TRUE]],
            rows |-> rws,
            snaps |-> SoloSnaps(1, ids, rws, NoDocs)]

\* both runs have probed and collected the date and are about to build
InitBuild ==
  /\ rt = RtIdle
  /\ site \in BuildSites
  /\ events = LET stored == CommitSet(NoDocs,
                                      SoloProbeBatch(Classify(ScrapeMatching(site.listing, DateOnly)),
                                                     [c \in CatCodes |-> 0]))
              IN  [id \in DOMAIN stored |-> [stored[id] EXCEPT !.rankingsScraped = TRUE]]
  /\ rows = SoloRows(SortEventIds(DOMAIN events), events, NoDocs, FALSE)
  /\ snaps = NoDocs
  /\ execs = [id \in {ExecId(0), ExecId(1)} |->
                [status |-> "running", updatedAt |-> IF id = ExecId(0) THEN 0 ELSE 1]]
  /\ now = 1
  /\ run = [r \in Runs |->
              [RunIdle EXCEPT !.pc = "snap_evq",
                              !.id = IF r = RunA THEN ExecId(0) ELSE ExecId(1),
                              !.logs = <<"Step 1", "Step 2">>,
                              !.all = ScrapeMatching(site.listing, DateOnly),
                              !.probed = TRUE]]
  /\ cur = CurIdle

\* the Snapshot Builder of run A, then that of run B
NextBuild ==
  \E r \in Runs :
    /\ r = RunB => run[RunA].pc = "summary"
    /\ \/ SnapEventQuery(r)
       \/ SnapGet(r)
       \/ SnapRowsAnyOrder(r)
       \/ SnapSet(r)

SpecBuild == InitBuild /\ [][NextBuild]_vars

\* C2: a Probe that runs after another Probe of the same date on the same
\* listing persists no new Event: the Event set (ids and detailUrls) stays
\* what it was when the second Probe began.
C2_ProbeIdempotent ==
  \A r \in Runs : run[r].second => EventSet(events) = run[r].probeBase

\* C2 witness: the second Probe has returned, after a first Probe that
\* stored two events
C2_Witness ==
  /\ run[RunB].second
  /\ run[RunB].probed
  /\ Cardinality(run[RunB].probeBase) = 2
  /\ Len(run[RunB].all) = 2

\* run r persists, under force-refresh, the rows of an event for which
\* another run has persisted the same acquired row list
SavesAgain(r) ==
  /\ run[r].pc = "save"
  /\ run'[r].pc = "mark"
  /\ run[r].force
  /\ \E o \in Runs \ {r} :
       /\ Head(run[r].targets).id \in DOMAIN run[o].acquired
       /\ run[o].acquired[Head(run[r].targets).id] = run[r].results

\* C3: when the Collector persists an event a second time, under
\* force-refresh and with the same acquired row list, the RankingRow ids of
\* the event are the same after as before: rows are overwritten, none added.
C3_CollectorIdempotent ==
  [][\A r \in Runs :
       SavesAgain(r) =>
         RowIdsOf(rows', Head(run[r].targets).id) = RowIdsOf(rows, Head(run[r].targets).id)]_vars

\* C3 witness: a forced run has persisted again the non-empty row list that
\* the other run persisted for the same event
C3_Witness ==
  /\ run[RunB].pc = "mark"
  /\ run[RunB].force
  /\ run[RunB].results # <<>>
  /\ Head(run[RunB].targets).id \in DOMAIN run[RunA].acquired
  /\ run[RunA].acquired[Head(run[RunB].targets).id] = run[RunB].results
  /\ Cardinality(RowIdsOf(rows, Head(run[RunB].targets).id)) > 1

\* both runs have been started, with the same parameters
SameParams == run[RunB].pc # "idle" /\ run[RunA].force = run[RunB].force

BothFinished == \A r \in Runs : run[r].pc = "done" /\ run[r].outcome = "finished"

\* C6: two overlapping runs for the same date on the same source data leave,
\* under every interleaving of their store operations, the Event, RankingRow
\* and DailySnapshot documents that one run alone leaves; at no time is there
\* an Event or a RankingRow that one run alone would not have stored.
C6_OverlapEqualsSolo ==
  SameParams =>
    LET solo == SoloRun(run[RunA].force)
    IN  /\ \A id \in DOMAIN events :
              id \in DOMAIN solo.events /\ events[id].detailUrl = solo.events[id].detailUrl
        /\ \A id \in DOMAIN rows : id \in DOMAIN solo.rows /\ rows[id] = solo.rows[id]
        /\ BothFinished =>
              /\ events = solo.events
              /\ rows = solo.rows
              /\ snaps = solo.snaps

\* C6 witness: two runs whose Probes overlapped have both finished and
\* left events, rows and snapshots
C6_Witness ==
  /\ SameParams
  /\ BothFinished
  /\ ~run[RunA].second /\ ~run[RunB].second
  /\ Cardinality(DOMAIN events) = 2
  /\ DOMAIN rows # {}
  /\ DOMAIN snaps # {}

\* the write of an event's rows, or the update that marks the event, failed
\* in run r after the retries of the store wrapper
CollectWriteFailed(r) == run[r].error = ErrStore /\ run[r].failedAt \in {"save", "mark"}

\* what a failed write of the Collector leaves of run r: nothing acquired or
\* persisted after it, no snapshot and no summary, the rows persisted before
\* it still there
AbortedCollect(r) ==
  /\ run[r].pc \in {"failed", "done"}
  /\ StepLogs(run[r].logs) = <<"Step 1", "Step 2">>
  /\ DOMAIN snaps = {}
  /\ \A id \in DOMAIN run[r].acquired :
        Cardinality(RowIdsOf(rows, id)) = Cardinality(KeptIdx(run[r].acquired[id]))
  /\ \A id \in DOMAIN events \ DOMAIN run[r].acquired : RowIdsOf(rows, id) = {}

\* C11: when the batch write of an event's rows or the update that marks the
\* event collected fails for good, the Collector stops: no later event is
\* acquired or persisted, no snapshot is built and no summary made, the rows
\* persisted before stay, and the run ends in status error.
C11_StoreFailureAborts ==
  \A r \in Runs :
    CollectWriteFailed(r) =>
      /\ AbortedCollect(r)
      /\ run[r].pc = "done" => (RecordOf(r).status = "error" /\ RecordOf(r).ok = FALSE)

\* C11, the part that holds: the failure propagates and what was persisted
\* before stays
C11_Propagates ==
  \A r \in Runs : CollectWriteFailed(r) => (AbortedCollect(r) /\ run[r].outcome \in {"none", "error"})

\* C11: a run in which the second event's write failed after the first
\* event was persisted, and which has ended
C11_Reached ==
  /\ CollectWriteFailed(RunA)
  /\ run[RunA].pc = "done"
  /\ Cardinality(DOMAIN events) = 2
  /\ \E id \in DOMAIN events : RowIdsOf(rows, id) # {} /\ events[id].rankingsScraped

\* C12: in every state, whatever Probe runs have happened, in sequence or
\* overlapping, and whatever the listing held, a detailUrl listed twice
\* included, no two persisted Events have the same detailUrl.
C12_UniqueDetailUrl ==
  \A a \in DOMAIN events : \A b \in DOMAIN events :
    a # b => events[a].detailUrl # events[b].detailUrl

\* C13: the collected flag of an Event changes at most once, from false to
\* true: once it is true no step of any run, a later Probe, a forced
\* Collector or an overlapping run, makes it false again.
C13_CollectedMonotone ==
  [][\A id \in DOMAIN events :
       events[id].rankingsScraped =>
         (id \in DOMAIN events' /\ events'[id].rankingsScraped)]_vars

\* a step of a run leaves field f of every stored RankingRow as it is
RunKeepsField(f) ==
  run' # run =>
    \A id \in DOMAIN rows :
      /\ id \in DOMAIN rows'
      /\ (f \in DOMAIN rows[id]) = (f \in DOMAIN rows'[id])
      /\ f \in DOMAIN rows[id] => rows'[id][f] = rows[id][f]

\* C14: no step of a Collector run, forced re-collection included, changes
\* imageStored or the deck name given by the curator of a RankingRow that
\* already exists.
C14_CollectorKeepsCurated ==
  [][RunKeepsField("imageStored") /\ RunKeepsField("deckName")]_vars

\* C14, the part that holds: the deck name of an existing row is kept
C14_DeckNameKept == [][RunKeepsField("deckName")]_vars

\* C14: a forced second run has persisted again a row whose image had been
\* stored and whose deck had been named
C14_Reached ==
  /\ run[RunB].pc = "mark"
  /\ run[RunB].force
  /\ \E id \in RowIdsOf(rows, Head(run[RunB].targets).id) :
       "deckName" \in DOMAIN rows[id] /\ rows[id].deckName = DeckNameX

\* the snapshots both runs have written
BuiltByBoth == DOMAIN run[RunA].built \cap DOMAIN run[RunB].built

\* the ranks of a rankings sequence, in order
RanksOf(rankings) == [i \in 1..Len(rankings) |-> rankings[i].rank]

\* the groupId values of a rankings sequence, with event and rank
GroupIdsOf(rankings) ==
  {<<rankings[i].originalEventId, rankings[i].rank, rankings[i].groupId>> : i \in 1..Len(rankings)}

RecordLogs(r) == IF "logs" \in DOMAIN RecordOf(r) THEN Range(RecordOf(r).logs) ELSE {}

\* C16: the ExecutionRecord is written at the start of a run, at every
\* phase boundary and at the terminal state: while a run executes Probe,
\* Collect, BuildSnapshots or SummarizeCounts, its stored record already
\* holds the log entry that announced the phase.
C16_RecordFollowsPhases ==
  \A r \in Runs :
    Phase(run[r].pc) \in 2..5 => Range(StepLogs(run[r].logs)) \subseteq RecordLogs(r)

\* C16, what the code does: a step changes the ExecutionRecords only at the
\* start of a run and at its end
C16_WrittenAtEndsOnly ==
  [][execs' # execs =>
       \E r \in Runs : run[r].pc \in {"start", "finish", "failed"} /\ run'[r].pc # run[r].pc]_vars

\* C17: two distinct runs use distinct ExecutionRecord ids, so that no run
\* writes into the record of another.
C17_DistinctExecIds ==
  \A r1 \in Runs : \A r2 \in Runs :
    (r1 # r2 /\ run[r1].pc # "idle" /\ run[r2].pc # "idle") => run[r1].id # run[r2].id

\* C18: the read of the most recent execution returns the record of the run
\* started last, the one with the greatest id, under every interleaving of
\* overlapping runs and whichever of them wrote last.
C18_LatestIsNewestRun ==
  DOMAIN execs # {} =>
    \A id \in DOMAIN execs : ExecIdMs(id) <= ExecIdMs(LatestExecution(execs))

\* C18, what the code does: the read returns a record written last
C18_LatestIsLastWritten ==
  DOMAIN execs # {} =>
    \A id \in DOMAIN execs : execs[id].updatedAt <= execs[LatestExecution(execs)].updatedAt

\* the response to the trigger of run r is given in the step that starts the
\* run, before any phase, and is the acknowledgement
AnsweredAtStart(r) ==
  run'[r].response # run[r].response =>
    /\ run[r].pc = "idle" /\ run'[r].pc = "start"
    /\ run'[r].logs = <<>>
    /\ run'[r].response = Accepted

\* C19: an authorized trigger is answered with the same immediate
\* acknowledgement (202 accepted) whatever the run does afterwards: the
\* response is given without waiting for a phase, and neither its status nor
\* its body depends on whether the run finishes, finds no event or fails;
\* the detail of a failure is in the ExecutionRecord only.
C19_SameAcknowledgement ==
  /\ [](\A r \in Runs : run[r].pc # "idle" => run[r].response = Accepted)
  /\ [][\A r \in Runs : AnsweredAtStart(r)]_vars

\* C19 witness: a run has failed, its record holds the error, and the
\* response to its trigger is the acknowledgement
C19_Witness ==
  /\ run[RunA].pc = "done"
  /\ run[RunA].outcome = "error"
  /\ RecordOf(RunA).status = "error"
  /\ RecordOf(RunA).error = run[RunA].error
  /\ run[RunA].response = Accepted

\* C19 witness of the run without events: it has finished and the response
\* to its trigger is the same
C19_WitnessEmpty ==
  /\ run[RunA].pc = "done"
  /\ run[RunA].outcome = "finished"
  /\ run[RunA].probed /\ run[RunA].all = <<>>
  /\ run[RunA].response = Accepted

\* the status of a record is a terminal one
Terminal(status) == status \in {"finished", "error"}

\* C20: every started run stops and persists a terminal status, finished or
\* error, to its own ExecutionRecord: no run has ended while its record
\* still shows status running, and a record that is terminal never changes
\* its status again.
C20_TerminalPersisted ==
  /\ [](\A r \in Runs : run[r].pc = "done" => Terminal(RecordOf(r).status))
  /\ [][\A id \in DOMAIN execs :
          Terminal(execs[id].status) => execs'[id].status = execs[id].status]_vars

\* C20, the part that fails with two runs: a terminal record changes its status
C20_TerminalStays ==
  [][\A id \in DOMAIN execs :
       Terminal(execs[id].status) => execs'[id].status = execs[id].status]_vars

\* the errors whose code or message carries unavailable, deadline, timeout,
\* 503 or 504, in either case of letters
CarriesTransientWord(e) ==
  \/ e.code \in {"unavailable", "503"}
  \/ e.message \in {"DEADLINE_EXCEEDED: deadline",
                    "Service Unavailable", "14 UNAVAILABLE: reset"}

\* C25: the store wrapper retries only errors classified transient (code or
\* message carrying unavailable, deadline, timeout, 503 or 504): after any
\* other error the operation has been attempted once for that error, no
\* backoff wait follows it, and that error is the one thrown to the caller.
C25_OnlyTransientRetried ==
  rt.fn = "withFsRetry" =>
    /\ \A k \in 1..Len(rt.waits) : CarriesTransientWord(rt.errs[k])
    /\ \A k \in 1..Len(rt.errs) :
          ~CarriesTransientWord(rt.errs[k]) =>
             /\ k = Len(rt.errs)
             /\ Len(rt.waits) = k - 1
             /\ rt.pc = "thrown"
             /\ rt.thrown = rt.errs[k]
             /\ rt.calls = k
    /\ (rt.errs # <<>> /\ ~CarriesTransientWord(rt.errs[1])) => (rt.calls = 1 /\ rt.waits = <<>>)

\* C25 witness: the first attempt failed with permission-denied and the
\* wrapper threw it, with retries left
C25_Witness ==
  /\ rt.fn = "withFsRetry"
  /\ rt.maxRetry > 0
  /\ rt.pc = "thrown"
  /\ rt.calls = 1
  /\ rt.waits = <<>>
  /\ rt.thrown.code = "permission-denied"

\* the deck links of a page in the order of their first occurrence
RECURSIVE DistinctDeckLinks(_, _)
DistinctDeckLinks(items, seen) ==
  IF items = <<>> THEN <<>>
  ELSE IF extractDeckIdFromUrl(Head(items)) = Null \/ Head(items) \in seen
       THEN DistinctDeckLinks(Tail(items), seen)
       ELSE <<Head(items)>> \o DistinctDeckLinks(Tail(items), seen \cup {Head(items)})

\* run r holds the rows that tier c returned for its current event
HoldsTierC(r) ==
  /\ run[r].pc \in {"save", "mark"}
  /\ TiersAsked(r) = <<"a", "b", "c">>

\* the rows tier c returned to run r follow the rank plan for page 1 and
\* have rank 9 on page 2, which exists for category Open only
FollowsPlan(r, plan) ==
  LET t == Head(run[r].targets)
      res == run[r].results
      first == Slice(DistinctDeckLinks(site.html[t.detailUrl][1], {}), PerPage)
  IN  /\ Len(res) >= Len(first)
      /\ \A k \in 1..Len(first) : res[k].deckViewUrl = first[k] /\ res[k].rank = plan[k]
      /\ \A k \in (Len(first) + 1)..Len(res) : res[k].rank = 9 /\ t.cat = CatOpen
      /\ Len(res) - Len(first) <= PerPage

\* C26 as stated: in tier c the k-th distinct deck link of results page 1
\* gets the rank at position k of the plan 1,1,1,3,3,3,3,3, and every link,
\* at most 8, of page 2, fetched for category Open only, gets rank 9.
C26_PlanAsStated ==
  \A r \in Runs : HoldsTierC(r) => FollowsPlan(r, <<1, 1, 1, 3, 3, 3, 3, 3>>)

\* C26 amended: the plan of page 1 is 1,2,3,3,5,5,5,5; the rest as stated.
C26_RankPlan ==
  \A r \in Runs : HoldsTierC(r) => FollowsPlan(r, <<1, 2, 3, 3, 5, 5, 5, 5>>)

\* C26 witness: tier c returned eight rows of page 1 and eight of page 2
C26_Witness ==
  /\ HoldsTierC(RunA)
  /\ Len(run[RunA].results) = 16
  /\ run[RunA].results[8].rank = 5
  /\ run[RunA].results[16].rank = 9

\* the rows of a list that have a player identifier no earlier row has
FirstOfPlayer(res) ==
  LET keep == {k \in 1..Len(res) :
                 /\ res[k].player_id # NoPlayer
                 /\ \A j \in 1..(k - 1) : res[j].player_id # res[k].player_id}
      RECURSIVE Pick(_)
      Pick(k) == IF k > Len(res) THEN <<>>
                 ELSE (IF k \in keep THEN <<res[k]>> ELSE <<>>) \o Pick(k + 1)
  IN  Pick(1)

\* the tiers of a ladder over category c of the page at url, with or without
\* tier c, in escalation order: the tiers asked and the rows of the first
\* tier that has any
LadderOf(url, c, withC) ==
  LET outA == fetchEventRankingsViaApi(url, c).results
      outB == fetchEventRankingsViaBrowser(url, c).results
      outC == IF withC THEN fetchEventRankingsViaHtml(url, c).results ELSE <<>>
  IN  [asked |-> IF outA # <<>> THEN <<<<"a", c>>>>
                 ELSE IF outB # <<>> \/ ~withC THEN <<<<"a", c>>, <<"b", c>>>>
                 ELSE <<<<"a", c>>, <<"b", c>>, <<"c", c>>>>,
       rows |-> FirstNonEmpty(outA, outB, outC)]

\* run r went through the force-rescue of its current event
Rescued(r) == run[r].pc \in {"save", "mark"} /\ Len(run[r].calls) > 3

\* after the force-rescue of run r, the other two categories were asked by
\* the ladder (with or without tier c), the rows kept are the merge of their
\* results with one row per player identifier and none without, and these
\* are the rows persisted for the event
RescueMerges(r, withC) ==
  LET t == Head(run[r].targets)
      others == SelectSeq(<<CatOpen, CatSenior, CatJunior>>, LAMBDA c : c # t.cat)
      l1 == LadderOf(t.detailUrl, others[1], withC)
      l2 == LadderOf(t.detailUrl, others[2], withC)
      kept == FirstOfPlayer(l1.rows \o l2.rows)
      ids == RowIdsOf(rows, t.id)
  IN  /\ Len(others) = 2
      /\ SubSeq(run[r].calls, 1, 3) = <<<<"a", t.cat>>, <<"b", t.cat>>, <<"c", t.cat>>>>
      /\ SubSeq(run[r].calls, 4, Len(run[r].calls)) = l1.asked \o l2.asked
      /\ run[r].results = kept
      /\ run[r].pc = "mark" =>
            /\ Cardinality(ids) = Len(kept)
            /\ \A k \in 1..Len(kept) :
                 \E id \in ids :
                    /\ rows[id].rank = kept[k].rank
                    /\ rows[id].deckId =
                         (IF kept[k].deck_id = NoDeck THEN Null ELSE kept[k].deck_id)

\* C27 as stated: under force-rescue the full ladder, tiers a, b and c in
\* escalation order, is re-run for each of the other two categories, and the
\* rows persisted are the merge of the non-empty results with at most one
\* row per player identifier, rows without one being dropped.
C27_RescueFullLadder == \A r \in Runs : Rescued(r) => RescueMerges(r, TRUE)

\* C27 amended: the ladder re-run for the other two categories has the tiers
\* a and b only; the rest as stated.
C27_RescueTiersAB == \A r \in Runs : Rescued(r) => RescueMerges(r, FALSE)

\* C27 witness: both other categories had rows, one through tier b; a row
\* without player identifier and two rows of players already seen were
\* dropped, and three rows were persisted
C27_Witness ==
  /\ Rescued(RunA) /\ run[RunA].pc = "mark"
  /\ [k \in 4..Len(run[RunA].calls) |-> run[RunA].calls[k][1]] = (4 :> "a") @@ (5 :> "b") @@ (6 :> "a")
  /\ Len(run[RunA].results) = 3
  /\ Cardinality(RowIdsOf(rows, Head(run[RunA].targets).id)) = 3

\* C23: the Collector marks an event collected only after the batch write of
\* the event's acquired rows succeeded in the same run; an event for which
\* no row batch was written (the write failed, or there was nothing to
\* write) is not marked.  The store is empty before the first run, so every
\* event marked collected has rows in the store.
C23_MarkedAfterWrite ==
  \A id \in DOMAIN events :
    events[id].rankingsScraped = TRUE => RowIdsOf(rows, id) # {}

\* C24: when a Probe run persists its batch of new events, no id of the
\* batch is used by an Event already in the store or by another Event of
\* the batch, so no existing Event document is overwritten; in any sequence
\* of Probe runs, sequential or overlapping.
C24_FreshEventIds ==
  [][\A r \in Runs :
       (run[r].pc = "probe_commit" /\ run'[r].pc = "probe_ret") =>
          /\ \A i \in 1..Len(run[r].batch) : run[r].batch[i][1] \notin DOMAIN events
          /\ \A i \in 1..Len(run[r].batch) : \A j \in 1..Len(run[r].batch) :
                i # j => run[r].batch[i][1] # run[r].batch[j][1]]_vars

\* C22: every store operation of the pipeline goes through the retry
\* wrapper, so a single transient store error in any phase is retried and
\* does not by itself end the run in error: a run that failed on a store
\* error met more than one transient error in a row.
C22_SingleTransientSurvived ==
  \A r \in Runs :
    (run[r].pc = "failed" /\ run[r].error = ErrStore) => run[r].transient > 1

\* the snapshots run r has written, as <<run, document id>>
BuiltDocs ==
  {x \in Runs \X UNION {DOMAIN run[q].built : q \in Runs} : x[2] \in DOMAIN run[x[1]].built}

\* no row of another rank has a groupId and no two rows share one
GroupIdsWellFormed(rankings) ==
  /\ \A k \in 1..Len(rankings) :
       rankings[k].rank \notin {1, 2, 3} => rankings[k].groupId = Null
  /\ \A k \in 1..Len(rankings) :
       rankings[k].rank \in {1, 2, 3} => rankings[k].groupId # Null
  /\ \A j, k \in 1..Len(rankings) :
       (j # k /\ rankings[j].groupId # Null) => rankings[j].groupId # rankings[k].groupId

\* each row of rank 1, 2 or 3 has the groupId made of the sequence number
\* that the Collector stored on its RankingRow
GroupIdOfOwnSequence(rankings) ==
  \A k \in 1..Len(rankings) :
    LET x == rankings[k]
    IN  x.rank \in {1, 2, 3} =>
          \E id \in DOMAIN rows :
             /\ rows[id].originalEventId = x.originalEventId
             /\ rows[id].rank = x.rank
             /\ rows[id].deckId = x.deckId
             /\ x.groupId = GroupId(DateYmd, x.originalEventId, x.rank,
                                    rows[id].positionIndex)

\* each row of rank 1, 2 or 3 has the groupId made of the number of earlier
\* rows of its event and rank in the list
GroupIdOfOccurrence(rankings) ==
  \A k \in 1..Len(rankings) :
    LET x == rankings[k]
        n == Cardinality({j \in 1..(k - 1) :
                            /\ rankings[j].originalEventId = x.originalEventId
                            /\ rankings[j].rank = x.rank})
    IN  x.rank \in {1, 2, 3} =>
          x.groupId = GroupId(DateYmd, x.originalEventId, x.rank, n)

\* the rows were returned to the build in the order of their document ids
ReadInIdOrder(read) ==
  \E c \in 1..Len(Categories) :
    read = RowsIn(rows, SortEventIds(DOMAIN events), Categories[c])

Curated200 ==
  /\ cur.response.status = 200
  /\ run[RunB].pc = "idle"

\* the groupIds of the rows of a rankings list
GroupIdsIn(rankings) == {rankings[i].groupId : i \in 1..Len(rankings)} \ {Null}

\* item k of the request fails validation: its groupId is empty or repeats
\* that of an earlier item, or its deckName is empty or over-long, or its
\* groupId is not in the snapshot
ItemFails(items, k, known) ==
  LET g == Trim(items[k].groupId)
      n == Trim(items[k].deckName)
  IN  \/ g = ""
      \/ \E j \in 1..(k - 1) : Trim(items[j].groupId) = g
      \/ n = ""
      \/ NameLength(n) > MaxNameLength
      \/ g \notin known

C29_LastOccurrenceWins ==
  Curated200 =>
    \A j, k \in 1..Len(cur.items) :
      (/\ j < k
       /\ Trim(cur.items[j].groupId) = Trim(cur.items[k].groupId)
       /\ \A l \in (k + 1)..Len(cur.items) :
             Trim(cur.items[l].groupId) # Trim(cur.items[k].groupId))
      => \A i \in 1..Len(snaps[cur.id].rankings) :
            snaps[cur.id].rankings[i].groupId = Trim(cur.items[k].groupId) =>
               snaps[cur.id].rankings[i].deckName = Trim(cur.items[k].deckName)

\* the deckName field of the RankingRow under snapshot row x, the empty
\* string when the row has none
RowDeckNames(x) ==
  {IF "deckName" \in DOMAIN rows[id] THEN rows[id].deckName ELSE "" :
     id \in {i \in DOMAIN rows : /\ rows[i].originalEventId = x.originalEventId
                                 /\ rows[i].rank = x.rank
                                 /\ rows[i].deckId = x.deckId}}

\* C30: after a force=true rebuild of a (date, category) the deckName of
\* every row of the snapshot is the deckName field of its RankingRow, the
\* empty string when the row has none; a deckName that the curation batch
\* update had stored on the previous snapshot is not carried over, so the
\* second run for a curated date resets those names.
C30_RebuildResetsNames ==
  \A d \in DOMAIN run[RunB].built :
    /\ d \in DOMAIN snaps
    /\ \A i \in 1..Len(snaps[d].rankings) :
         RowDeckNames(snaps[d].rankings[i]) = {snaps[d].rankings[i].deckName}
    /\ \A g \in 1..Len(snaps[d].groups) :
         \A i \in 1..Len(snaps[d].groups[g].rankings) :
           RowDeckNames(snaps[d].groups[g].rankings[i]) = {snaps[d].groups[g].rankings[i].deckName}

\* C30 witness: the curator had named the rank-1 deck of the snapshot
\* "Deck Y" and the rank-3 row "Deck X"; the second run has rebuilt the
\* snapshot, which now holds no name for the first and the row's name for
\* the second
C30_Witness ==
  /\ cur.response.status = 200
  /\ cur.items = <<[groupId |-> GroupOne, deckName |-> DeckNameY]>>
  /\ cur.response.updatedIds = <<GroupOne>>
  /\ cur.id \in DOMAIN run[RunB].built
  /\ \E i, j \in 1..Len(snaps[cur.id].rankings) :
       /\ snaps[cur.id].rankings[i].groupId = GroupOne
       /\ snaps[cur.id].rankings[i].deckName = ""
       /\ snaps[cur.id].rankings[j].groupId = GroupThree
       /\ snaps[cur.id].rankings[j].deckName = DeckNameX

====
